---- MODULE Spec2Model ----
(***************************************************************************)
(* Model of the crawl pipeline of maven_github_scraper:                    *)
(*   - Github::retry and the shared credential rotation index              *)
(*     (src/src/scraper/github.rs)                                         *)
(*   - Scraper::fetch_and_download, the pagination loop, together with     *)
(*     Data::set_last_id / Data::new, the durable cursor                   *)
(*     (src/src/scraper/mod.rs, src/src/data.rs)                           *)
(*   - Scraper::download_files / fetch_all_files_for, the harvest of one   *)
(*     repository, and Data::get_non_fetched_repos / mark_fetched          *)
(*   - Data::store_repo, the result sink                                   *)
(*   - Scraper::load_repositories, one batch of the detail stage           *)
(*   - handle_response, the classification of a response                   *)
(*   - iterate, the concurrent ledger appends of fetch_more_data           *)
(*     (src/fetch_more_data/src/main.rs)                                   *)
(* Each part has its own specification over its own variables; the other   *)
(* variables stay unchanged.                                               *)
(***************************************************************************)
EXTENDS Integers, Sequences, FiniteSets, TLC

\* ------------------------------------------------------------------------
\* Bounds of the model
\* ------------------------------------------------------------------------
MaxTokens == 3          \* largest credential pool explored
MaxCallers == 2         \* largest number of concurrent callers of retry
MaxRateLimits == 4      \* RateLimited responses answered to all callers together
MaxListings == 2        \* listing calls of one history, restarts included
MaxCrashes == 1         \* process crashes of one history
MaxSmallId == 2         \* ids of the short pages are in 1..MaxSmallId
MaxSmallLen == 2        \* the short pages hold at most this many summaries
FullPageLen == 100      \* summaries of a full page of the listing endpoint
MaxRepos == 2           \* repository ids are 1..MaxRepos and LongId
MaxRows == 2            \* rows of the result sink when a harvest-only run starts
MaxTreeLen == 3         \* entries of a file tree
MaxWriters == 2         \* largest number of concurrent callers of store_repo
MaxStores == 3          \* store_repo calls of one history
MaxMsgLen == 2          \* pieces of text in the message of an error body
MaxAppends == 2         \* ledger append tasks spawned by one run of iterate
MaxSetters == 2         \* concurrent callers of set_last_id
MaxReport == 11         \* names in report.has_distro_repos

\* ------------------------------------------------------------------------
\* State
\* ------------------------------------------------------------------------
VARIABLES
    \* --- Github (github.rs:20-25) and the callers of Github::retry
    tokens,               \* tokens.len(), the size of the credential pool
    current_token_index,  \* AtomicUsize shared by every caller
    callers,              \* the tasks that are inside retry
    rpc,                  \* position of each caller inside retry
    prev,                 \* fetch_update: the value the closure was given
    wait,                 \* the closure's captured `wait` flag
    result,               \* what the last attempt of fun() returned
    rateLimits,           \* history: RateLimited responses seen, per caller
    sleeps,               \* history: cooldown sleeps taken, per caller
    ownWrapped,           \* history: did the caller's successful CAS wrap
    raced,                \* history: a CAS of the caller's update failed
    advances,             \* history: successful updates of the index
    wrapCount,            \* history: successful updates that stored 0
    \* --- Data: the crawl cursor (data.rs:25-27)
    state_cache,          \* AtomicUsize, the in-memory cursor
    state_file,           \* content of state.json, or Absent
    state_file_lock,      \* holder of the Mutex around the rewrite
    write_buf,            \* BufWriter of set_last_id: bytes not yet flushed
    \* --- Scraper::fetch_and_download (mod.rs:205-259)
    spc,                  \* position of the scan task
    last_id,              \* local `last_id`
    to_load,              \* local `to_load`, the pending batch
    repos,                \* local `repos`, the page being triaged
    idx,                  \* position of the for loop inside `repos`
    finished,             \* Arc<AtomicBool> set by the Ctrl+C task
    finished_read,        \* local `finished`, read once per iteration
    js,                   \* the JoinSet of the iteration: spawned batches
    since,                \* history: argument of the last listing call
    listings,             \* history: number of listing calls
    crashes,              \* history: number of crashes
    cursorWrites,         \* history: set_last_id calls of this iteration
    seenMax,              \* history: largest id of any page received
    listed,               \* history: the non-fork summaries received
    handed,               \* history: the batches given to load_repositories
    triaged,              \* history: node ids of the non-forks triaged in this run
    ioFailure,            \* history: a batch of this run ended with an error of
                          \* mark_fetched or store_repo
    detailFailure,        \* history: the detail query of a batch of this run
                          \* returned an error
    \* --- Data: completion ledger, result sink, downloaded files
    fetched,              \* content of the `fetched` file
    github_csv,           \* content of github.csv, or no file
    poms,                 \* the files under poms/
    \* --- Scraper::download_files / fetch_all_files_for (mod.rs:116-203)
    hpc,                  \* position of the harvest task
    todo,                 \* `repos`, the result of get_non_fetched_repos
    ri,                   \* position of the for loop inside `repos`
    tree,                 \* `tree.tree` of the repository being harvested
    ti,                   \* position of the for loop inside the tree
    has_file,             \* local `has_file`
    dl,                   \* the JoinSet of download_file tasks
    ledger0,              \* history: ids appended to the ledger before the run
    treeCalls,            \* history: ids whose file tree was requested
    dispatched,           \* history: paths of the download tasks of this repository
    requests,             \* history: the file downloads sent to the network
    sent,                 \* history: number of requests download_file has sent
    tree_res,             \* the Result of the tree call: "none", "ok", "http", "other"
    \* --- Data::store_repo (data.rs:132-159) and its callers
    csv_lock,             \* holder of the Mutex around the csv write, 0 when free
    writers,              \* the tasks that call store_repo
    wpc,                  \* position of each writer inside store_repo
    wfd,                  \* the file the writer opened, and how
    wbuf,                 \* bytes held by the writer's csv::Writer
    csv0,                 \* history: github.csv before the first call
    calls,                \* history: the rows given to store_repo, in call order
    \* --- Scraper::load_repositories (mod.rs:167-189), one batch
    entry,                \* the caller of fetch_all_files_for that is running
    graph_repos,          \* `graph_repos`, the answer of the detail query
    concluded,            \* history: each harvest that returned Ok: the id, and
                          \* whether an entry of its tree ended with the target
    cost,                 \* `data.rate_limit.cost` of the detail answer, 0 before it
    \* --- handle_response (github.rs:334-354, fetch_more_data/src/api.rs:165-183)
    kpc,                  \* position of the request: "sent" or "classified"
    client,               \* the client that made the request
    response,             \* what came back: a transport failure, or status and body
    classified,           \* the Result the attempt ends with
    \* --- iterate (fetch_more_data/src/main.rs:80-122): the ledger appends
    appenders,            \* the JoinSet `js`: the id and position of every task
    \* --- Data::set_last_id (data.rs:104-130) called on clones of one Data
    setters,              \* each caller: its position, its `id`, its BufWriter
    \* --- Scraper::download_all_workflows (mod.rs:56-86)
    wfpc,                 \* position: "idle", "start", "next", "spawn", "join", "done", "failed"
    report,               \* report.has_distro_repos: the names, in order
    rest,                 \* what the iterator of the names has not given yet
    group,                \* the names of the tuple not spawned yet
    wjs,                  \* the JoinSet of the group: name and state of each task
    cnt,                  \* the local `cnt`
    okTrue,               \* history: fetches that returned Ok(true)
    fetchCalls            \* history: the names a fetch has run for

retryVars == <<tokens, current_token_index, callers, rpc, prev, wait, result,
               rateLimits, sleeps, ownWrapped, raced, advances, wrapCount>>

cursorVars == <<state_cache, state_file, state_file_lock, write_buf>>

scanVars == <<spc, last_id, to_load, repos, idx, finished_read, js,
              since, listings, crashes, cursorWrites, seenMax, listed, handed,
              triaged, ioFailure, detailFailure>>

filesVars == <<fetched, github_csv, poms>>

harvestVars == <<hpc, todo, ri, tree, ti, has_file, dl, ledger0, treeCalls,
                 dispatched, requests, sent, tree_res>>

sinkVars == <<csv_lock, writers, wpc, wfd, wbuf, csv0, calls>>

batchVars == <<entry, graph_repos, concluded, cost>>

classifyVars == <<kpc, client, response, classified>>

workflowVars == <<wfpc, report, rest, group, wjs, cnt, okTrue, fetchCalls>>

vars == <<retryVars, cursorVars, scanVars, finished, filesVars, harvestVars,
          sinkVars, batchVars, classifyVars, appenders, setters, workflowVars>>

\* what the steps of retry leave alone
notRetryVars == <<cursorVars, scanVars, finished, filesVars, harvestVars, sinkVars,
                  batchVars, classifyVars, appenders, setters, workflowVars>>

\* what the steps of a harvest-only run leave alone, the flag apart
notHarvestVars == <<retryVars, cursorVars, scanVars, sinkVars, batchVars,
                    classifyVars, appenders, setters, workflowVars>>

\* what the steps of store_repo leave alone, github.csv apart
notSinkVars == <<retryVars, cursorVars, scanVars, finished, fetched, poms,
                 harvestVars, batchVars, classifyVars, appenders, setters, workflowVars>>

\* what the steps of the scan leave alone, the cursor apart
notScanVars == <<retryVars, filesVars, harvestVars, sinkVars, batchVars,
                 classifyVars, appenders, setters, workflowVars>>

Callers == 1..MaxCallers

\* ------------------------------------------------------------------------
\* Github::retry  (github.rs:293-325)
\* ------------------------------------------------------------------------

\* what one attempt `fun().await` can return (github.rs:299-321)
Outcomes == {"Ok", "Reqwest", "HttpError", "RateLimit", "Other"}

\* a rotation that lets the index reach tokens.len() before it wraps
NextIndexLateWrap(old, len) == IF old + 1 > len THEN 0 ELSE old + 1

\* a closure that never goes back to slot 0
NextIndexNoWrap(old, len) == old + 1

\* the closure given to fetch_update (github.rs:306-313): the value stored
NextIndex(old, len) == IF old + 1 >= len THEN 0 ELSE old + 1

\* the closure given to fetch_update (github.rs:307-309): wait is set, and
\* never cleared, when the value it was given is the last slot
ClosureWait(w, old, len) == IF old + 1 >= len THEN TRUE ELSE w

\* a plain store of the closure's result, whatever the index holds by then
CasBlindStore(cur, expected) == TRUE

\* compare_exchange_weak inside AtomicUsize::fetch_update: the store takes
\* place only when the index still holds the value the closure was given
CasSucceeds(cur, expected) == cur = expected

RECURSIVE SumOver(_, _)
SumOver(S, f) ==
    IF S = {} THEN 0
    ELSE LET c == CHOOSE x \in S : TRUE IN f[c] + SumOver(S \ {c}, f)

\* Github::new (github.rs:142-149): index 0; main.rs:143 refuses an empty pool
RetryInit ==
    /\ tokens \in 1..MaxTokens
    /\ current_token_index = 0
    /\ callers \in {1..n : n \in 1..MaxCallers}
    /\ rpc = [c \in Callers |-> "attempt"]
    /\ prev = [c \in Callers |-> 0]
    /\ wait = [c \in Callers |-> FALSE]
    /\ result = [c \in Callers |-> "None"]
    /\ rateLimits = [c \in Callers |-> 0]
    /\ sleeps = [c \in Callers |-> 0]
    /\ ownWrapped = [c \in Callers |-> FALSE]
    /\ raced = [c \in Callers |-> FALSE]
    /\ advances = 0
    /\ wrapCount = 0

\* a match that returns whatever fun() gave
ReturnsAll(o) == TRUE

\* a match that returns only the success
ReturnsOnlyOk(o) == o = "Ok"

\* a match with no returning arm
ReturnsNever(o) == FALSE

\* github.rs:298-322: the arms of the match that return; the RateLimit arm
\* is the only one that goes on to the rotation and the next attempt
Returns(o) == o # "RateLimit"

\* github.rs:299-302,321: fun().await; anything but RateLimit is returned
Attempt(c) ==
    /\ c \in callers
    /\ rpc[c] = "attempt"
    /\ \E o \in Outcomes :
        /\ ~Returns(o) => SumOver(callers, rateLimits) < MaxRateLimits
        /\ result' = [result EXCEPT ![c] = o]
        /\ IF ~Returns(o)
             THEN /\ rpc' = [rpc EXCEPT ![c] = "load"]
                  /\ rateLimits' = [rateLimits EXCEPT ![c] = @ + 1]
                  \* github.rs:304  let mut wait = false
                  /\ wait' = [wait EXCEPT ![c] = FALSE]
                  /\ raced' = [raced EXCEPT ![c] = FALSE]
             ELSE /\ rpc' = [rpc EXCEPT ![c] = "returned"]
                  /\ UNCHANGED <<rateLimits, wait, raced>>
    /\ UNCHANGED <<tokens, current_token_index, callers, prev, sleeps,
                   ownWrapped, advances, wrapCount>>
    /\ UNCHANGED notRetryVars

\* fetch_update: the initial load of the index (github.rs:305-306)
FetchLoad(c) ==
    /\ c \in callers
    /\ rpc[c] = "load"
    /\ prev' = [prev EXCEPT ![c] = current_token_index]
    /\ rpc' = [rpc EXCEPT ![c] = "cas"]
    /\ UNCHANGED <<tokens, current_token_index, callers, wait, result,
                   rateLimits, sleeps, ownWrapped, raced, advances, wrapCount>>
    /\ UNCHANGED notRetryVars

\* fetch_update: one run of the closure followed by compare_exchange
\* (github.rs:306-314). On failure the closure runs again on the value found.
FetchCas(c) ==
    /\ c \in callers
    /\ rpc[c] = "cas"
    /\ wait' = [wait EXCEPT ![c] = ClosureWait(wait[c], prev[c], tokens)]
    /\ IF CasSucceeds(current_token_index, prev[c])
         THEN /\ current_token_index' = NextIndex(prev[c], tokens)
              /\ advances' = advances + 1
              /\ wrapCount' = wrapCount
                               + (IF NextIndex(prev[c], tokens) = 0 THEN 1 ELSE 0)
              /\ ownWrapped' = [ownWrapped EXCEPT
                                  ![c] = (NextIndex(prev[c], tokens) = 0)]
              /\ rpc' = [rpc EXCEPT ![c] = "updated"]
              /\ UNCHANGED <<prev, raced>>
         ELSE /\ prev' = [prev EXCEPT ![c] = current_token_index]
              /\ raced' = [raced EXCEPT ![c] = TRUE]
              /\ UNCHANGED <<current_token_index, advances, wrapCount,
                             ownWrapped, rpc>>
    /\ UNCHANGED <<tokens, callers, result, rateLimits, sleeps>>
    /\ UNCHANGED notRetryVars

\* github.rs:316-319: sleep 60s when wait is set, then github.rs:323 yield_now
Cooldown(c) ==
    /\ c \in callers
    /\ rpc[c] = "updated"
    /\ wait[c]
    /\ sleeps' = [sleeps EXCEPT ![c] = @ + 1]
    /\ rpc' = [rpc EXCEPT ![c] = "yield"]
    /\ UNCHANGED <<tokens, current_token_index, callers, prev, wait, result,
                   rateLimits, ownWrapped, raced, advances, wrapCount>>
    /\ UNCHANGED notRetryVars

\* github.rs:316: wait is false, straight to yield_now
NoCooldown(c) ==
    /\ c \in callers
    /\ rpc[c] = "updated"
    /\ ~wait[c]
    /\ rpc' = [rpc EXCEPT ![c] = "yield"]
    /\ UNCHANGED <<tokens, current_token_index, callers, prev, wait, result,
                   rateLimits, sleeps, ownWrapped, raced, advances, wrapCount>>
    /\ UNCHANGED notRetryVars

\* github.rs:323: yield_now().await, then the next turn of the loop
YieldNow(c) ==
    /\ c \in callers
    /\ rpc[c] = "yield"
    /\ rpc' = [rpc EXCEPT ![c] = "attempt"]
    /\ UNCHANGED <<tokens, current_token_index, callers, prev, wait, result,
                   rateLimits, sleeps, ownWrapped, raced, advances, wrapCount>>
    /\ UNCHANGED notRetryVars

RetryNext ==
    \/ \E c \in Callers : Attempt(c)
    \/ \E c \in Callers : FetchLoad(c)
    \/ \E c \in Callers : FetchCas(c)
    \/ \E c \in Callers : Cooldown(c)
    \/ \E c \in Callers : NoCooldown(c)
    \/ \E c \in Callers : YieldNow(c)

\* ------------------------------------------------------------------------
\* Claims about Github::retry
\* ------------------------------------------------------------------------

\* 1 while the caller's RateLimited response has not yet moved the index
PendingAdvance == [c \in Callers |-> IF rpc[c] \in {"load", "cas"} THEN 1 ELSE 0]

\* 1 while the caller set wait and has not yet slept
PendingSleep == [c \in Callers |->
                    IF rpc[c] = "updated" /\ wait[c] THEN 1 ELSE 0]

\* C1: with a single caller, after n RateLimited responses the index is
\* n mod K, and the cooldown has been taken floor(n / K) times: exactly on
\* the advances that brought the index back to 0.
C1_SingleCallerRotation ==
    callers = {1} =>
        LET n == rateLimits[1] IN
        /\ rpc[1] \in {"load", "cas"} =>
               /\ current_token_index = (n - 1) % tokens
               /\ sleeps[1] = (n - 1) \div tokens
        /\ rpc[1] = "updated" =>
               /\ current_token_index = n % tokens
               /\ wait[1] <=> (n % tokens = 0)
               /\ sleeps[1] = (n - 1) \div tokens
        /\ rpc[1] \in {"yield", "attempt", "returned"} =>
               /\ current_token_index = n % tokens
               /\ sleeps[1] = n \div tokens

\* a single caller, two credentials, four rate limits, two cooldowns
C1_Witness ==
    /\ callers = {1}
    /\ tokens = 2
    /\ rateLimits[1] = 4
    /\ sleeps[1] = 2
    /\ current_token_index = 0
    /\ rpc[1] = "yield"

\* C2: under any interleaving every RateLimited response advances the shared
\* index exactly once: after m advances the index is m mod K, and m is the
\* number of RateLimited responses whose update has completed.
C2_NoLostUpdate ==
    /\ current_token_index = advances % tokens
    /\ advances = SumOver(callers, rateLimits) - SumOver(callers, PendingAdvance)

\* two callers advanced a pool of three, one of them after losing a race
C2_Witness ==
    /\ Cardinality(callers) >= 2
    /\ tokens = 3
    /\ \E c \in callers : raced[c] /\ rpc[c] = "updated"
    /\ advances >= 4

\* C3: a caller sleeps if and only if its own successful advance stored 0,
\* so the cooldowns taken or about to be taken are as many as the wraps.
C3_SleepIffOwnWrap ==
    /\ \A c \in callers : rpc[c] = "updated" => (wait[c] <=> ownWrapped[c])
    /\ SumOver(callers, sleeps) + SumOver(callers, PendingSleep) = wrapCount

\* C13: what retry returns is never the RateLimit error; a caller whose last
\* response was RateLimited is still inside retry, on its way through the
\* rotation to its next attempt.
C13_NeverReturnsRateLimit ==
    \A c \in callers :
        /\ rpc[c] = "returned" => result[c] \in Outcomes \ {"RateLimit"}
        /\ result[c] = "RateLimit" =>
              rpc[c] \in {"load", "cas", "updated", "yield", "attempt"}

\* a caller was rate limited twice and then returned a success
C13_Witness ==
    \E c \in callers :
        /\ rpc[c] = "returned"
        /\ result[c] = "Ok"
        /\ rateLimits[c] = 2

\* C18: the attempt that ends with a Reqwest or an HttpError makes retry
\* return in that very step, with the rotation index and the caller's
\* cooldown count as they were; a caller that has returned takes no further
\* step and keeps its result.
C18_ErrorReturnsAtOnce ==
    [][\A c \in callers :
          /\ (rpc[c] = "attempt" /\ rpc'[c] # "attempt"
                /\ result'[c] \in {"Reqwest", "HttpError"}) =>
                /\ rpc'[c] = "returned"
                /\ current_token_index' = current_token_index
                /\ sleeps' = sleeps
                /\ advances' = advances
          /\ rpc[c] = "returned" =>
                /\ rpc'[c] = "returned"
                /\ result'[c] = result[c]]_vars

\* a caller's first attempt ended with an HttpError and retry returned it:
\* no rate limit, no rotation and no cooldown on its account
C18_Witness ==
    \E c \in callers :
        /\ rpc[c] = "returned"
        /\ result[c] = "HttpError"
        /\ rateLimits[c] = 0
        /\ sleeps[c] = 0
        /\ \E d \in callers : d # c /\ rateLimits[d] >= 1

\* C20: a caller returns only with an outcome that is not RateLimited, so
\* a caller whose every attempt is RateLimited is still inside retry; and
\* when the RateLimited responses are finitely many, every caller returns.
C20_RetryTerminates ==
    /\ [](\A c \in callers :
            /\ rpc[c] = "returned" => result[c] # "RateLimit"
            /\ result[c] \in {"None", "RateLimit"} => rpc[c] # "returned")
    /\ <>(\A c \in callers : rpc[c] = "returned")

\* a caller returned after it went round the whole pool and cooled down
C20_Witness ==
    \E c \in callers :
        /\ rpc[c] = "returned"
        /\ rateLimits[c] >= tokens
        /\ sleeps[c] >= 1
        /\ SumOver(callers, rateLimits) = MaxRateLimits

\* github.rs:151-154: the slots of self.tokens that get_token may index
TokenSlots == 0 .. (tokens - 1)

\* C34: with a pool of K >= 1 credentials the rotation index is one of
\* 0..K-1 in every reachable state, whatever the interleaving of the callers
\* of retry, so get_token always indexes inside the pool.
C34_IndexInsidePool ==
    /\ tokens >= 1
    /\ current_token_index \in TokenSlots

\* two callers raced on a pool of two and the index went round to slot 0
C34_Witness ==
    /\ Cardinality(callers) = 2
    /\ tokens = 2
    /\ \E c \in callers : raced[c]
    /\ wrapCount >= 1
    /\ advances >= 3

\* ------------------------------------------------------------------------
\* The durable cursor file: Data::new and Data::set_last_id (data.rs:55-130)
\* ------------------------------------------------------------------------

\* a file that does not exist, and a file holding the bytes b
NoFile == [exists |-> FALSE, bytes |-> <<>>]
FileOf(b) == [exists |-> TRUE, bytes |-> b]

DigitChars == <<"0", "1", "2", "3", "4", "5", "6", "7", "8", "9">>

\* decimal text of a usize, as serde_json writes it
RECURSIVE Digits(_)
Digits(n) ==
    IF n < 10 THEN <<DigitChars[n + 1]>>
    ELSE Digits(n \div 10) \o <<DigitChars[(n % 10) + 1]>>

\* serde_json::to_writer_pretty of State { last_id: Forges { github: id } }
\* (data.rs:114-119); the text around the number is one token on each side
Serialize(id) == <<"{last_id:{github:">> \o Digits(id) \o <<"}}">>

\* the bytes set_last_id hands to its BufWriter (data.rs:114-120)
CursorBytes(id) == Serialize(id) \o <<"\n">>

IsDigit(ch) == \E i \in 1..10 : DigitChars[i] = ch
DigitVal(ch) == (CHOOSE i \in 1..10 : DigitChars[i] = ch) - 1

RECURSIVE StripTrailingWs(_)
StripTrailingWs(b) ==
    IF b # <<>> /\ b[Len(b)] = "\n" THEN StripTrailingWs(SubSeq(b, 1, Len(b) - 1))
    ELSE b

RECURSIVE NumberOf(_)
NumberOf(ds) ==
    IF ds = <<>> THEN 0
    ELSE NumberOf(SubSeq(ds, 1, Len(ds) - 1)) * 10 + DigitVal(ds[Len(ds)])

\* serde_json::from_slice::<State> (data.rs:63): the whole text must be one
\* State document, trailing whitespace allowed; anything else is an error
ParseOk(b) ==
    LET t == StripTrailingWs(b) IN
    /\ Len(t) >= 3
    /\ t[1] = "{last_id:{github:"
    /\ t[Len(t)] = "}}"
    /\ \A i \in 2..(Len(t) - 1) : IsDigit(t[i])
    /\ (Len(t) > 3 => t[2] # "0")

ParseValue(b) ==
    LET t == StripTrailingWs(b) IN NumberOf(SubSeq(t, 2, Len(t) - 1))

\* Data::new (data.rs:60-65): can the cursor be loaded, and what is loaded
CursorLoadable(f) == ~f.exists \/ ParseOk(f.bytes)
LoadCursor(f) == IF f.exists THEN ParseValue(f.bytes) ELSE 0

\* write(2) through a descriptor at offset off: the bytes are replaced from
\* there on and what lies beyond the written range stays
WriteAt(b, off, data) ==
    LET n == IF Len(b) > off + Len(data) THEN Len(b) ELSE off + Len(data) IN
    [i \in 1..n |-> IF i > off /\ i <= off + Len(data) THEN data[i - off] ELSE b[i]]

\* ------------------------------------------------------------------------
\* Scraper::fetch_and_download (mod.rs:205-259)
\* ------------------------------------------------------------------------
BatchSize == 100

Max(a, b) == IF a >= b THEN a ELSE b

\* RestRepository (github.rs:44-50); node_id is an opaque string of its own
NodeId(id) == <<"node", id>>
Summary(id, fork) == [id |-> id, node_id |-> NodeId(id), fork |-> fork]

SmallSummaries == {Summary(i, f) : i \in 1..MaxSmallId, f \in BOOLEAN}

\* short pages: any summaries in any order
SmallPages ==
    UNION {[1..n -> SmallSummaries] : n \in 0..MaxSmallLen}

\* full pages as the endpoint returns them: the FullPageLen ids after `s`,
\* ascending, with no fork, every tenth a fork, or only forks
FullPage(s, kind) ==
    [i \in 1..FullPageLen |->
        Summary(s + i, CASE kind = "none" -> FALSE
                         [] kind = "tenth" -> (i % 10 = 0)
                         [] OTHER -> TRUE)]

Pages(s) == SmallPages \cup {FullPage(s, k) : k \in {"none", "tenth", "forks"}}

\* the largest id of a page, 0 for the empty page
MaxIdOf(page) ==
    IF page = <<>> THEN 0
    ELSE LET ids == {page[i].id : i \in 1..Len(page)} IN
         CHOOSE m \in ids : \A x \in ids : x <= m

NonForks(page, n) ==
    {[id |-> page[i].id, node_id |-> page[i].node_id, page |-> n] :
        i \in {j \in 1..Len(page) : ~page[j].fork}}

\* Data::new for the cursor (data.rs:60-65) and Scraper::new (mod.rs:33-49)
CursorInit ==
    /\ state_cache = 0
    /\ state_file = NoFile
    /\ state_file_lock = "free"
    /\ write_buf = <<>>

ScanInit ==
    /\ spc = "start"
    /\ last_id = 0
    /\ to_load = <<>>
    /\ repos = <<>>
    /\ idx = 1
    /\ finished_read = FALSE
    /\ js = <<>>
    /\ since = 0
    /\ listings = 0
    /\ crashes = 0
    /\ cursorWrites = 0
    /\ seenMax = 0
    /\ listed = {}
    /\ handed = <<>>
    /\ triaged = <<>>
    /\ ioFailure = FALSE
    /\ detailFailure = FALSE

\* mod.rs:38-42: the Ctrl+C task stores true into the flag
CtrlC ==
    /\ spc \notin {"crashed", "dead", "stopped", "failed"}
    /\ ~finished
    /\ finished' = TRUE
    /\ UNCHANGED <<spc, last_id, to_load, repos, idx, finished_read, js,
                   since, listings, crashes, cursorWrites, seenMax, listed, handed,
                   triaged, ioFailure, detailFailure>>
    /\ UNCHANGED <<cursorVars, notScanVars>>

\* mod.rs:206-210: let mut last_id = self.data.get_last_id()?
Start ==
    /\ spc = "start"
    /\ last_id' = state_cache
    /\ to_load' = <<>>
    /\ spc' = "list"
    /\ UNCHANGED <<repos, idx, finished, finished_read, js, since, listings,
                   crashes, cursorWrites, seenMax, listed, handed,
                   triaged, ioFailure, detailFailure>>
    /\ UNCHANGED <<cursorVars, notScanVars>>

\* a read that never sees the flag set
LoadStale(flag) == FALSE

\* mod.rs:215: `self.finished.load(SeqCst)`
Load(flag) == flag

\* mod.rs:214-216: the listing call answers a page; the flag is read once
ScrapeOk ==
    /\ spc = "list"
    /\ listings < MaxListings
    /\ \E page \in Pages(last_id) :
        /\ repos' = page
        /\ seenMax' = Max(seenMax, MaxIdOf(page))
        /\ listed' = listed \cup NonForks(page, listings + 1)
    /\ since' = last_id
    /\ listings' = listings + 1
    /\ finished_read' = Load(finished)
    /\ js' = <<>>
    /\ idx' = 1
    /\ cursorWrites' = 0
    /\ spc' = "triage"
    /\ UNCHANGED <<last_id, to_load, finished, crashes, handed, triaged, ioFailure,
                   detailFailure>>
    /\ UNCHANGED <<cursorVars, notScanVars>>

\* mod.rs:214: the listing call returns an error, `?` ends the run
ScrapeErr ==
    /\ spc = "list"
    /\ listings < MaxListings
    /\ since' = last_id
    /\ listings' = listings + 1
    /\ spc' = "failed"
    /\ UNCHANGED <<last_id, to_load, repos, idx, finished, finished_read, js,
                   crashes, cursorWrites, seenMax, listed, handed,
                   triaged, ioFailure, detailFailure>>
    /\ UNCHANGED <<cursorVars, notScanVars>>

\* a loop that leaves before its last summary
TriageDoneEarly(page, i) == i >= Len(page)

\* mod.rs:218: `for repo in repos.drain(..)` has run out of summaries
TriageDone(page, i) == i > Len(page)

\* a batch that is dispatched one id early
BatchFullEarly(q) == Len(q) + 1 >= BatchSize

\* mod.rs:226: `if to_load.len() == 100`, tested after the push
BatchFull(q) == Len(q) = BatchSize

\* a loop that passes over no summary
SkipsNone(repo) == FALSE

\* mod.rs:220-222: `if repo.fork { continue; }`
Skips(repo) == repo.fork

\* an assignment placed after the fork test
NextLastIdOfNonFork(cur, repo) == IF repo.fork THEN cur ELSE repo.id

\* mod.rs:219: `last_id = repo.id`, before the fork test
NextLastId(cur, repo) == repo.id

\* mod.rs:218-232: one turn of the for loop
Triage ==
    /\ spc = "triage"
    /\ ~TriageDone(repos, idx)
    /\ LET repo == repos[idx]
           pushed == Append(to_load, repo.node_id) IN
        /\ last_id' = NextLastId(last_id, repo)
        /\ idx' = idx + 1
        /\ IF Skips(repo)
             THEN UNCHANGED <<to_load, js, handed, triaged>>
             ELSE /\ triaged' = Append(triaged, repo.node_id)
                  /\ IF BatchFull(pushed)
                       THEN /\ js' = Append(js, [batch |-> pushed, st |-> "running"])
                            /\ handed' = Append(handed, pushed)
                            /\ to_load' = <<>>
                       ELSE /\ to_load' = pushed
                            /\ UNCHANGED <<js, handed>>
    /\ UNCHANGED <<spc, repos, finished, finished_read, since, listings,
                   crashes, cursorWrites, seenMax, listed, ioFailure, detailFailure>>
    /\ UNCHANGED <<cursorVars, notScanVars>>

\* what a spawned load_repositories returns: Ok; the error of the detail
\* query (mod.rs:170); the error of a tree call or of a download
\* (mod.rs:180-182); or the error of mark_fetched (mod.rs:121, mod.rs:161) or
\* of store_repo (mod.rs:184), which `?` hands on; or a panic of the task,
\* as the assert on the query cost makes (github.rs:205-208)
BatchResults == {"ok", "detail", "err", "io", "panic"}

\* mod.rs:229: a spawned load_repositories (mod.rs:167-189) runs to its end
\* while the scan task goes on, and returns Ok or Err
BatchFinish ==
    /\ spc \notin {"crashed", "dead"}
    /\ \E i \in 1..Len(js) :
        /\ js[i].st = "running"
        /\ \E r \in BatchResults :
            /\ js' = [js EXCEPT ![i].st = r]
            /\ ioFailure' = (ioFailure \/ r = "io")
            /\ detailFailure' = (detailFailure \/ r = "detail")
    /\ UNCHANGED <<spc, last_id, to_load, repos, idx, finished, finished_read,
                   since, listings, crashes, cursorWrites, seenMax, listed, handed,
                   triaged>>
    /\ UNCHANGED <<cursorVars, notScanVars>>

\* mod.rs:234 -> data.rs:105: set_last_id stores the id in the cache
SetLastIdStore ==
    /\ spc = "triage"
    /\ TriageDone(repos, idx)
    /\ state_cache' = last_id
    /\ cursorWrites' = cursorWrites + 1
    /\ spc' = "w_lock"
    /\ UNCHANGED <<state_file, state_file_lock, write_buf>>
    /\ UNCHANGED <<last_id, to_load, repos, idx, finished, finished_read, js,
                   since, listings, crashes, seenMax, listed, handed,
                   triaged, ioFailure, detailFailure>>
    /\ UNCHANGED notScanVars

\* data.rs:110: lock.lock() inside spawn_blocking
SetLastIdLock ==
    /\ spc = "w_lock"
    /\ state_file_lock = "free"
    /\ state_file_lock' = "scan"
    /\ spc' = "w_create"
    /\ UNCHANGED <<state_cache, state_file, write_buf>>
    /\ UNCHANGED <<last_id, to_load, repos, idx, finished, finished_read, js,
                   since, listings, crashes, cursorWrites, seenMax, listed, handed,
                   triaged, ioFailure, detailFailure>>
    /\ UNCHANGED notScanVars

\* data.rs:112: File::create makes the file or truncates it to zero length
SetLastIdCreate ==
    /\ spc = "w_create"
    /\ state_file' = FileOf(<<>>)
    /\ spc' = "w_write"
    /\ UNCHANGED <<state_cache, state_file_lock, write_buf>>
    /\ UNCHANGED <<last_id, to_load, repos, idx, finished, finished_read, js,
                   since, listings, crashes, cursorWrites, seenMax, listed, handed,
                   triaged, ioFailure, detailFailure>>
    /\ UNCHANGED notScanVars

\* data.rs:112: File::create fails; `?` returns the error, the guard is
\* dropped, and mod.rs:234 unwraps the error: the scan task panics
SetLastIdCreateErr ==
    /\ spc = "w_create"
    /\ state_file_lock' = "free"
    /\ spc' = "failed"
    /\ UNCHANGED <<state_cache, state_file, write_buf>>
    /\ UNCHANGED <<last_id, to_load, repos, idx, finished, finished_read, js,
                   since, listings, crashes, cursorWrites, seenMax, listed, handed,
                   triaged, ioFailure, detailFailure>>
    /\ UNCHANGED notScanVars

\* data.rs:113-122: the document and the newline go into the BufWriter, which
\* holds them (they are far below its capacity); then the guard is dropped
SetLastIdWrite ==
    /\ spc = "w_write"
    /\ write_buf' = CursorBytes(state_cache)
    /\ state_file_lock' = "free"
    /\ spc' = "w_flush"
    /\ UNCHANGED <<state_cache, state_file>>
    /\ UNCHANGED <<last_id, to_load, repos, idx, finished, finished_read, js,
                   since, listings, crashes, cursorWrites, seenMax, listed, handed,
                   triaged, ioFailure, detailFailure>>
    /\ UNCHANGED notScanVars

\* data.rs:125: the closure ends, the BufWriter is dropped and flushes its
\* bytes at the start of the file; data.rs:126 the await returns
SetLastIdFlush ==
    /\ spc = "w_flush"
    /\ state_file' = FileOf(WriteAt(state_file.bytes, 0, write_buf))
    /\ write_buf' = <<>>
    /\ spc' = "join"
    /\ UNCHANGED <<state_cache, state_file_lock>>
    /\ UNCHANGED <<last_id, to_load, repos, idx, finished, finished_read, js,
                   since, listings, crashes, cursorWrites, seenMax, listed, handed,
                   triaged, ioFailure, detailFailure>>
    /\ UNCHANGED notScanVars

\* mod.rs:236-241: join_next hands over a batch that has ended; an Err is
\* only logged; res.unwrap() panics on a batch that panicked, and the
\* JoinSet dropped by the unwinding aborts the batches left in it
JoinNext ==
    /\ spc = "join"
    /\ \E i \in 1..Len(js) :
        /\ js[i].st # "running"
        /\ IF js[i].st = "panic"
             THEN /\ spc' = "failed"
                  /\ js' = <<>>
             ELSE /\ spc' = spc
                  /\ js' = SubSeq(js, 1, i - 1) \o SubSeq(js, i + 1, Len(js))
    /\ UNCHANGED <<last_id, to_load, repos, idx, finished, finished_read,
                   since, listings, crashes, cursorWrites, seenMax, listed, handed,
                   triaged, ioFailure, detailFailure>>
    /\ UNCHANGED <<cursorVars, notScanVars>>

\* a loop that never looks at the flag it read
ExitsLoopNever(f) == FALSE

\* mod.rs:243: `if finished`, the local read at mod.rs:215
ExitsLoop(f) == f

\* a join loop that ends with batches still in the set
AllJoinedEarly(set) == TRUE

\* mod.rs:236: join_next() gives None, the JoinSet is empty
AllJoined(set) == set = <<>>

\* mod.rs:236,243: the JoinSet is empty; the flag read at mod.rs:215 decides
JoinDone ==
    /\ spc = "join"
    /\ AllJoined(js)
    /\ spc' = IF ExitsLoop(finished_read) THEN "drain" ELSE "pace"
    /\ UNCHANGED <<last_id, to_load, repos, idx, finished, finished_read, js,
                   since, listings, crashes, cursorWrites, seenMax, listed, handed,
                   triaged, ioFailure, detailFailure>>
    /\ UNCHANGED <<cursorVars, notScanVars>>

\* a test that finds every batch empty
IsEmptyAlways(q) == TRUE

\* mod.rs:244: `to_load.is_empty()`
IsEmpty(q) == q = <<>>

\* mod.rs:243-249: the pending batch, when there is one, goes through
\* load_repositories on the scan task itself; its error ends the run
Drain ==
    /\ spc = "drain"
    /\ IF ~IsEmpty(to_load)
         THEN /\ handed' = Append(handed, to_load)
              /\ \E r \in {"ok", "err"} :
                    spc' = IF r = "ok" THEN "stopped" ELSE "failed"
         ELSE /\ spc' = "stopped"
              /\ UNCHANGED handed
    /\ UNCHANGED <<last_id, to_load, repos, idx, finished, finished_read, js,
                   since, listings, crashes, cursorWrites, seenMax, listed, triaged, ioFailure,
                   detailFailure>>
    /\ UNCHANGED <<cursorVars, notScanVars>>

\* mod.rs:251-253: the rest of the 250ms period, then the next iteration
Pace ==
    /\ spc = "pace"
    /\ spc' = "list"
    /\ UNCHANGED <<last_id, to_load, repos, idx, finished, finished_read, js,
                   since, listings, crashes, cursorWrites, seenMax, listed, handed,
                   triaged, ioFailure, detailFailure>>
    /\ UNCHANGED <<cursorVars, notScanVars>>

\* the process dies: memory, tasks and the mutex are gone, the files stay
Crash ==
    /\ spc \notin {"crashed", "dead", "stopped", "failed"}
    /\ crashes < MaxCrashes
    /\ crashes' = crashes + 1
    /\ spc' = "crashed"
    /\ state_cache' = 0
    /\ state_file_lock' = "free"
    /\ write_buf' = <<>>
    /\ last_id' = 0
    /\ to_load' = <<>>
    /\ js' = <<>>
    /\ finished' = FALSE
    /\ finished_read' = FALSE
    /\ triaged' = <<>>
    /\ ioFailure' = FALSE
    /\ detailFailure' = FALSE
    /\ UNCHANGED <<state_file, repos, idx, since, listings, cursorWrites,
                   seenMax, listed, handed>>
    /\ UNCHANGED notScanVars

\* main.rs:148 -> data.rs:55-65: the next run loads state.json when it
\* exists; a text that is no State document makes Data::new fail
Restart ==
    /\ spc = "crashed"
    /\ IF ~state_file.exists
         THEN /\ state_cache' = 0
              /\ spc' = "start"
         ELSE IF ParseOk(state_file.bytes)
                THEN /\ state_cache' = ParseValue(state_file.bytes)
                     /\ spc' = "start"
                ELSE /\ spc' = "dead"
                     /\ UNCHANGED state_cache
    /\ repos' = <<>>
    /\ idx' = 1
    /\ UNCHANGED <<state_file, state_file_lock, write_buf>>
    /\ UNCHANGED <<last_id, to_load, finished, finished_read, js, since,
                   listings, crashes, cursorWrites, seenMax, listed, handed,
                   triaged, ioFailure, detailFailure>>
    /\ UNCHANGED notScanVars

ScanNext ==
    \/ CtrlC
    \/ Start
    \/ ScrapeOk
    \/ ScrapeErr
    \/ Triage
    \/ BatchFinish
    \/ SetLastIdStore
    \/ SetLastIdLock
    \/ SetLastIdCreate
    \/ SetLastIdCreateErr
    \/ SetLastIdWrite
    \/ SetLastIdFlush
    \/ JoinNext
    \/ JoinDone
    \/ Drain
    \/ Pace
    \/ Crash
    \/ Restart

\* ------------------------------------------------------------------------
\* Claims about the pagination loop and the durable cursor
\* ------------------------------------------------------------------------
\* the positions of the scan task after the page's cursor write has returned
PageProcessed == spc \in {"join", "drain", "pace", "stopped"}

\* the positions of the scan task inside set_last_id
InCursorWrite == spc \in {"w_lock", "w_create", "w_write", "w_flush"}

RangeOf(q) == {q[i] : i \in 1..Len(q)}
HandedNodes == UNION {RangeOf(handed[i]) : i \in 1..Len(handed)}

\* C4: once a page has been processed the persisted cursor is at least the
\* largest id of every page received so far, and it is not below the cursor
\* the page was requested with.
C4_CursorCoversPages ==
    PageProcessed =>
        /\ CursorLoadable(state_file)
        /\ LoadCursor(state_file) >= seenMax
        /\ LoadCursor(state_file) >= since

\* C5: the cursor is written once per iteration, after the last summary of
\* the page has been triaged and never before; the write is complete when
\* the iteration goes on, and a listing call is made with the durable value.
C5_CursorWrittenOncePerPage ==
    /\ spc = "list" =>
          /\ CursorLoadable(state_file)
          /\ LoadCursor(state_file) = last_id
          /\ write_buf = <<>>
    /\ spc = "triage" =>
          /\ cursorWrites = 0
          /\ LoadCursor(state_file) = since
    /\ InCursorWrite =>
          /\ cursorWrites = 1
          /\ idx = Len(repos) + 1
    /\ PageProcessed =>
          /\ cursorWrites = 1
          /\ idx = Len(repos) + 1
          /\ write_buf = <<>>
          /\ state_file = FileOf(CursorBytes(last_id))

\* a page of two summaries has been triaged and persisted, and the loop is
\* about to list again with the cursor it wrote
C5_Witness ==
    /\ spc = "list"
    /\ listings = 1
    /\ Len(repos) = 2
    /\ cursorWrites = 1
    /\ last_id = 2
    /\ state_file = FileOf(CursorBytes(2))

\* C6: whenever the process has crashed, state.json is absent or holds one
\* complete cursor document, so the next Data::new loads a cursor.
C6_CrashLeavesLoadableCursor ==
    /\ spc = "crashed" => CursorLoadable(state_file)
    /\ spc # "dead"

\* the non-fork summaries at or below the durable cursor whose node id was
\* never given to load_repositories
Lost ==
    {s \in listed : s.id <= LoadCursor(state_file) /\ s.node_id \notin HandedNodes}

\* C7: after a crash, every repository at or below the durable cursor that
\* was never handed to the detail stage belongs to the last page listed.
C7_CrashLosesOnlyInFlightPage ==
    (spc = "crashed" /\ CursorLoadable(state_file)) =>
        \A s \in Lost : s.page = listings

\* C11: once an iteration has read the cancellation flag as true, no
\* listing call is made any more and the loop never goes to its pacing or
\* listing point; when the loop goes on to the drain and when it has
\* stopped, every batch spawned for the page has been joined.
C11_CancelEndsListing ==
    [][/\ finished_read =>
            /\ listings' = listings
            /\ spc' \notin {"pace", "list"}
       /\ spc' \in {"drain", "stopped"} => js' = <<>>]_vars

\* the flag was read as true with the only page of the run, the batch of
\* 100 spawned for that page has been joined and the loop has left
C11_Witness ==
    /\ spc = "stopped"
    /\ finished_read
    /\ listings = 1
    /\ Len(repos) = FullPageLen
    /\ Len(handed) = 1
    /\ Len(handed[1]) = BatchSize
    /\ js = <<>>

\* the run took the pending batch through load_repositories at mod.rs:243-249
Drained ==
    /\ spc \in {"stopped", "failed"}
    /\ finished_read
    /\ handed # <<>>
    /\ Len(handed[Len(handed)]) < BatchSize

\* C12: the pending batch holds the non-forks triaged since the last
\* dispatch and stays below 100; every batch given to the detail stage
\* holds exactly 100 node ids, the batch drained at cancellation apart; in
\* a run without restart the number of batches dispatched is the number of
\* complete hundreds of non-forks triaged, so a first page of 90 non-forks
\* dispatches nothing.
C12_BatchCarriedAcrossPages ==
    /\ Len(to_load) < BatchSize
    /\ Len(to_load) = Len(triaged) % BatchSize
    /\ \A i \in 1..Len(handed) :
          \/ Len(handed[i]) = BatchSize
          \/ i = Len(handed) /\ Drained
    /\ (crashes = 0 /\ ~Drained) => Len(handed) = Len(triaged) \div BatchSize
    /\ (crashes = 0 /\ listings = 1 /\ Len(triaged) <= 90 /\ ~Drained) =>
          handed = <<>>

\* the first page gave 90 non-forks and 10 forks and no batch; the tenth
\* non-fork of the second page has just completed the batch of 100
C12_Witness ==
    /\ crashes = 0
    /\ listings = 2
    /\ Cardinality({s \in listed : s.page = 1}) = 90
    /\ spc = "triage"
    /\ ~TriageDone(repos, idx)
    /\ Len(triaged) = BatchSize
    /\ Len(handed) = 1
    /\ handed[1] = triaged
    /\ to_load = <<>>

\* the batches given to load_repositories, put end to end
RECURSIVE Flatten(_)
Flatten(qs) == IF qs = <<>> THEN <<>> ELSE Head(qs) \o Flatten(Tail(qs))

\* the for loop at mod.rs:218 is about to look at a summary
AtSummary == spc = "triage" /\ ~TriageDone(repos, idx)

\* a step of the for loop at mod.rs:218: it moves on to the next summary
TriageStep == AtSummary /\ idx' = idx + 1

\* C21: a fork changes neither the pending batch nor the batches
\* dispatched; the node id of a non-fork is added once, at the end of what
\* was batched before it; a batch dispatched by the for loop holds exactly
\* 100 ids and leaves the pending batch empty; the pending batch holds fewer
\* than 100 ids at every page boundary; in a run without restart the batches
\* followed by the pending batch are the non-forks triaged, in listing order.
C21_BatchingInvariants ==
    /\ [][TriageStep =>
            IF repos[idx].fork
              THEN to_load' = to_load /\ handed' = handed /\ js' = js
              ELSE /\ Flatten(handed') \o to_load' =
                        Flatten(handed) \o to_load \o <<repos[idx].node_id>>
                   /\ Len(handed') > Len(handed) =>
                        /\ Len(handed'[Len(handed')]) = BatchSize
                        /\ to_load' = <<>>
                        /\ js' = Append(js, [batch |-> handed'[Len(handed')],
                                              st |-> "running"])]_vars
    /\ [](~AtSummary => Len(to_load) < BatchSize)
    /\ []((crashes = 0 /\ ~Drained) => Flatten(handed) \o to_load = triaged)

\* a page of 90 non-forks and 10 forks, then a page of 100 non-forks: one
\* batch was dispatched inside the second page, which ends with 90 ids pending
C21_Witness ==
    /\ crashes = 0
    /\ listings = 2
    /\ spc = "w_lock"
    /\ Cardinality({s \in listed : s.page = 1}) = 90
    /\ Len(handed) = 1
    /\ Len(handed[1]) = BatchSize
    /\ Len(to_load) = 90
    /\ Flatten(handed) \o to_load = triaged

\* the last Len(q) elements of f are q
EndsWithSeq(f, q) ==
    /\ Len(f) >= Len(q)
    /\ SubSeq(f, Len(f) - Len(q) + 1, Len(f)) = q

\* C22: the step that ends the loop after the flag was read true is taken
\* with every dispatched batch joined, and it hands a non-empty pending batch
\* to load_repositories; once the run has stopped, no batch is running and
\* the batches handed over end with the non-forks triaged by the run, each
\* once and in listing order; with no restart they are exactly these.
C22_CancelDrainsPending ==
    /\ [][(spc = "drain" /\ spc' \in {"stopped", "failed"}) =>
            /\ finished_read
            /\ js = <<>> /\ js' = <<>>
            /\ to_load # <<>> => handed' = Append(handed, to_load)
            /\ to_load = <<>> => handed' = handed]_vars
    /\ [](spc = "stopped" =>
            /\ js = <<>>
            /\ EndsWithSeq(Flatten(handed), triaged)
            /\ crashes = 0 => Flatten(handed) = triaged)

\* a page of 100 non-forks was dispatched as a batch; the flag was read
\* true with the next page, whose non-forks were drained as a second,
\* partial batch before the run stopped
C22_Witness ==
    /\ spc = "stopped"
    /\ crashes = 0
    /\ Len(handed) = 2
    /\ Len(handed[1]) = BatchSize
    /\ handed[2] = to_load
    /\ to_load # <<>>
    /\ js = <<>>

\* fetch_and_download has returned, or has ended with the error of a call
LoopEnded == spc \in {"stopped", "failed"}

\* C23: a listing call made while the flag is true is the last one of the
\* run: either it fails, or the flag is read true right after it, and no
\* listing call follows a true reading; the run fails only at a listing
\* call, at the creation of the cursor file, at the join of a batch that
\* panicked or in the drained batch; and
\* when every call and every dispatched batch returns, a run whose flag
\* became true ends: it stops, unless one of these calls returned an error.
C23_CancelStopsLoop ==
    /\ [][/\ (finished /\ listings' > listings) =>
                  (finished_read' \/ spc' = "failed")
          /\ finished_read => listings' = listings
          /\ (spc # "failed" /\ spc' = "failed") =>
                  spc \in {"list", "w_create", "join", "drain"}]_vars
    /\ finished ~> LoopEnded

\* the flag became true after a page of 100 non-forks had been dispatched;
\* one more page, without a non-fork, was listed and the run stopped
C23_Witness ==
    /\ spc = "stopped"
    /\ finished
    /\ finished_read
    /\ listings = 2
    /\ Len(handed) = 1
    /\ Len(triaged) = BatchSize

\* C30: once a batch of the run has ended with an error of mark_fetched or
\* of store_repo, and once the run has failed at the creation of the cursor
\* file, no listing call is made and no batch is given to load_repositories.
C30_IoFailureHalts ==
    [][(ioFailure \/ spc = "failed") =>
          /\ listings' = listings
          /\ handed' = handed]_vars

\* C31: a listing call either answers a page or ends the run as failed;
\* and once a listing call or the detail query of a batch of the run has
\* returned an error, no listing call is made.
C31_ListingAndDetailErrorsFatal ==
    [][/\ (spc = "list" /\ listings' > listings) => spc' \in {"triage", "failed"}
       /\ (detailFailure \/ spc = "failed") => listings' = listings]_vars

\* the loop leaves its join point, the process still running
LeavesJoin == spc = "join" /\ spc' # "join" /\ crashes' = crashes

\* C35 as stated: a listing call is made with no batch in the JoinSet, and
\* the loop leaves the join loop only with every batch of the page joined,
\* to go on to the drain or to the pacing: no batch stops it there.
C35_NoBatchStopsLoop ==
    [][/\ listings' > listings => js = <<>>
       /\ LeavesJoin => (js = <<>> /\ spc' \in {"drain", "pace"})]_vars

\* C35: a listing call is made with no batch in the JoinSet; the loop leaves
\* the join loop with every batch of the page joined, whatever they
\* returned, to go on to the drain or to the pacing, or it ends there as
\* failed on joining a batch that panicked; batches that returned errors
\* never end it.
C35_BatchesJoinedBeforeListing ==
    [][/\ listings' > listings => js = <<>>
       /\ LeavesJoin =>
            \/ js = <<>> /\ spc' \in {"drain", "pace"}
            \/ spc' = "failed" /\ js' = <<>>
                 /\ \E i \in 1..Len(js) : js[i].st = "panic"]_vars

\* the detail query of the batch of the first page returned an error, the
\* batch was joined and the second listing call has just answered
C35_Witness ==
    /\ crashes = 0
    /\ detailFailure
    /\ listings = 2
    /\ spc = "triage" /\ idx = 1
    /\ js = <<>>
    /\ Len(handed) = 1

\* C36: once a page has been processed the cursor, in memory and in the
\* file, is the id of the last summary of the page, fork or not; after an
\* empty page it is the value the page was requested with, written once more.
C36_CursorIsLastSummary ==
    PageProcessed =>
        /\ cursorWrites = 1
        /\ state_cache = last_id
        /\ state_file = FileOf(CursorBytes(last_id))
        /\ LoadCursor(state_file) = last_id
        /\ last_id = IF repos # <<>> THEN repos[Len(repos)].id ELSE since

\* a page made only of forks has been processed and the cursor in the file
\* is the id of its last summary, above the one the page was requested with
C36_Witness ==
    /\ PageProcessed
    /\ repos # <<>>
    /\ \A i \in 1..Len(repos) : repos[i].fork
    /\ LoadCursor(state_file) = repos[Len(repos)].id
    /\ LoadCursor(state_file) > since

\* an empty page has been processed after a page that moved the cursor
EmptyPageRewritesCursor ==
    /\ PageProcessed
    /\ repos = <<>>
    /\ since > 0
    /\ LoadCursor(state_file) = since

\* C17: after a listing call has answered an empty page, the run makes no
\* further listing call.
C17_EmptyPageStops ==
    [][(listings >= 1 /\ crashes = 0 /\ repos = <<>>) => listings' = listings]_vars

\* ------------------------------------------------------------------------
\* Completion ledger and result sink as files (data.rs:132-196)
\* ------------------------------------------------------------------------
\* an id whose text is the texts of the ids 1 and 2 put together
LongId == 12
RepoIds == (1..MaxRepos) \cup {LongId}

\* Repo / CsvRepo (main.rs:19-31): the id is a string
Repo(i) == [id |-> Digits(i), name |-> i]

\* one line of github.csv: the header `id,name,has_pom` or a CsvRepo row
CsvHeader == [kind |-> "header"]
CsvRow(r, b) == [kind |-> "row", id |-> r.id, name |-> r.name, has_pom |-> b]

\* mark_fetched (data.rs:189-190) run once for each id of q
RECURSIVE LedgerBytes(_)
LedgerBytes(q) ==
    IF q = <<>> THEN <<>>
    ELSE Digits(Head(q)) \o <<"\n">> \o LedgerBytes(Tail(q))

\* str::lines (data.rs:166): the pieces between newlines; `cur` is the piece
\* being read
RECURSIVE SplitLines(_, _)
SplitLines(b, cur) ==
    IF b = <<>> THEN (IF cur = <<>> THEN <<>> ELSE <<cur>>)
    ELSE IF Head(b) = "\n" THEN <<cur>> \o SplitLines(Tail(b), <<>>)
    ELSE SplitLines(Tail(b), Append(cur, Head(b)))

\* data.rs:165-166: the set `done`
DoneSet(b) == LET ls == SplitLines(b, <<>>) IN {ls[i] : i \in 1..Len(ls)}

\* a membership test that keeps every row
NotDoneAny(done, id) == TRUE

\* data.rs:173: !done.contains(record.id.as_str())
NotDone(done, id) == id \notin done

\* csv::Reader::from_path + deserialize (data.rs:168-172): the first line is
\* taken as the header, every other line must be a CsvRepo
CsvReadable(f) ==
    /\ f.exists
    /\ f.bytes # <<>> => f.bytes[1] = CsvHeader
    /\ \A i \in 2..Len(f.bytes) : f.bytes[i].kind = "row"

CsvRecords(f) == IF f.bytes = <<>> THEN <<>> ELSE Tail(f.bytes)

\* data.rs:161-182
NonFetchedRepos(ledger, f) ==
    LET done == DoneSet(ledger) IN
    SelectSeq(CsvRecords(f), LAMBDA rec : NotDone(done, rec.id))

\* ------------------------------------------------------------------------
\* Scraper::download_files and fetch_all_files_for (mod.rs:116-203)
\* ------------------------------------------------------------------------
\* paths are strings, written as sequences of pieces
PomXml == <<"pom.xml">>
AllPaths == <<PomXml, <<"sub/", "pom.xml">>, <<"readme.md">>, <<"pom.xml", ".bak">>>>

\* the file trees of the model: entries of AllPaths in that order
Trees ==
    {t \in UNION {[1..n -> RangeOf(AllPaths)] : n \in 0..MaxTreeLen} :
        \A i, j \in 1..Len(t) :
            i < j => \E a, b \in 1..Len(AllPaths) :
                        a < b /\ AllPaths[a] = t[i] /\ AllPaths[b] = t[j]}

\* a filter on the start of the path
StartsWith(path, file) ==
    /\ Len(path) >= Len(file)
    /\ SubSeq(path, 1, Len(file)) = file

\* str::ends_with (mod.rs:137)
EndsWith(path, file) ==
    /\ Len(path) >= Len(file)
    /\ SubSeq(path, Len(path) - Len(file) + 1, Len(path)) = file

SortedSeqs(S) ==
    {q \in UNION {[1..n -> S] : n \in 0..Cardinality(S)} :
        \A i, j \in 1..Len(q) : i < j => q[i] < q[j]}

\* Data::new (data.rs:67-70) makes `fetched`; earlier runs filled both files
FilesInit ==
    /\ ledger0 \in SortedSeqs(RepoIds)
    /\ fetched = LedgerBytes(ledger0)
    /\ \E rows \in UNION {[1..n -> RepoIds] : n \in 0..MaxRows} :
          github_csv \in
            {NoFile,
             FileOf(<<CsvHeader>> \o [i \in 1..Len(rows) |-> CsvRow(Repo(rows[i]), FALSE)])}
    /\ poms = {}

HarvestInit ==
    /\ hpc = "start"
    /\ todo = <<>>
    /\ ri = 1
    /\ tree = <<>>
    /\ ti = 1
    /\ has_file = FALSE
    /\ dl = <<>>
    /\ treeCalls = {}
    /\ dispatched = <<>>
    /\ requests = {}
    /\ sent = 0
    /\ tree_res = "none"

\* mod.rs:38-42 during a harvest-only run
HarvestCtrlC ==
    /\ hpc \notin {"start", "done", "failed"}
    /\ ~finished
    /\ finished' = TRUE
    /\ UNCHANGED <<filesVars, harvestVars, notHarvestVars>>

\* mod.rs:192: get_non_fetched_repos (data.rs:161-182)
GetNonFetched ==
    /\ hpc = "start"
    /\ IF CsvReadable(github_csv)
         THEN /\ todo' = NonFetchedRepos(fetched, github_csv)
              /\ hpc' = "loop"
         ELSE /\ hpc' = "failed"
              /\ UNCHANGED todo
    /\ ri' = 1
    /\ UNCHANGED <<tree, ti, has_file, dl, ledger0, treeCalls, dispatched, requests, sent, tree_res>>
    /\ UNCHANGED <<filesVars, finished, notHarvestVars>>

\* a loop that never sees the flag set
CancelledNever(flag) == FALSE

\* mod.rs:195: `if self.finished.load(SeqCst) { break; }`
Cancelled(flag) == flag

\* mod.rs:194-197: the next repository, unless the flag is set
LoopNext ==
    /\ hpc = "loop"
    /\ hpc' = IF ri > Len(todo) \/ Cancelled(finished) THEN "done" ELSE "tree"
    /\ UNCHANGED <<todo, ri, tree, ti, has_file, dl, ledger0, treeCalls,
                   dispatched, requests, sent, tree_res>>
    /\ UNCHANGED <<filesVars, finished, notHarvestVars>>

\* mod.rs:118-119,130-132: the tree call answers a tree
TreeOk ==
    /\ hpc = "tree"
    /\ \E t \in Trees : tree' = t
    /\ treeCalls' = treeCalls \cup {todo[ri].id}
    /\ ti' = 1
    /\ has_file' = FALSE
    /\ dl' = <<>>
    /\ dispatched' = <<>>
    /\ hpc' = "spawn"
    /\ tree_res' = "ok"
    /\ UNCHANGED <<todo, ri, ledger0, requests, sent>>
    /\ UNCHANGED <<filesVars, finished, notHarvestVars>>

\* a match without the HttpError arm
MarksFetchedNever(e) == FALSE

\* mod.rs:120: the arm `Err(Error::Github(github::Error::HttpError(code)))`
MarksFetched(e) == e = "http"

\* mod.rs:120-127: an HTTP error of the tree call: the repository is marked
\* fetched and fetch_all_files_for returns Ok(false)
TreeHttpError ==
    /\ hpc = "tree"
    /\ treeCalls' = treeCalls \cup {todo[ri].id}
    /\ tree' = <<>>
    /\ ti' = 1
    /\ has_file' = FALSE
    /\ dl' = <<>>
    /\ dispatched' = <<>>
    /\ tree_res' = "http"
    /\ hpc' = IF MarksFetched("http") THEN "mark_id" ELSE "failed"
    /\ UNCHANGED <<todo, ri, ledger0, requests, sent>>
    /\ UNCHANGED <<filesVars, finished, notHarvestVars>>

\* mod.rs:128 and mod.rs:198-199: any other error of the tree call ends
\* fetch_all_files_for and, through `?`, download_files
TreeOtherError ==
    /\ hpc = "tree"
    /\ treeCalls' = treeCalls \cup {todo[ri].id}
    /\ tree_res' = "other"
    /\ hpc' = "failed"
    /\ UNCHANGED <<todo, ri, tree, ti, has_file, dl, ledger0, dispatched, requests, sent>>
    /\ UNCHANGED <<filesVars, finished, notHarvestVars>>

\* mod.rs:134-144: one tree entry; a match spawns a download_file task
SpawnDownload ==
    /\ hpc = "spawn"
    /\ ti <= Len(tree)
    /\ IF EndsWith(tree[ti], PomXml)
         THEN /\ has_file' = TRUE
              /\ dl' = Append(dl, [path |-> tree[ti], st |-> "spawned", code |-> 0])
              /\ dispatched' = Append(dispatched, tree[ti])
         ELSE UNCHANGED <<has_file, dl, dispatched>>
    /\ ti' = ti + 1
    /\ UNCHANGED <<hpc, todo, ri, tree, ledger0, treeCalls, requests, sent, tree_res>>
    /\ UNCHANGED <<filesVars, finished, notHarvestVars>>

\* mod.rs:144-146: the tree is exhausted, the join loop starts
SpawnDone ==
    /\ hpc = "spawn"
    /\ ti > Len(tree)
    /\ hpc' = "joinfiles"
    /\ UNCHANGED <<todo, ri, tree, ti, has_file, dl, ledger0, treeCalls,
                   dispatched, requests, sent, tree_res>>
    /\ UNCHANGED <<filesVars, finished, notHarvestVars>>

\* the statuses that handle_response (github.rs:334-354) turns into
\* Error::HttpError for a download: 404, not found, and another one
DownloadStatuses == {404, 500}

\* what a download_file task returns: Ok, Error::HttpError with its status,
\* or another error (Error::Reqwest, an I/O error of write_pom)
DownloadResults ==
    {[st |-> "ok", code |-> 0], [st |-> "other", code |-> 0]}
        \cup {[st |-> "http", code |-> c] : c \in DownloadStatuses}

\* a test that finds no file
FileExistsNever(f, files) == FALSE

\* github.rs:253: `file.exists()`
FileExists(f, files) == f \in files

\* Github::download_file (github.rs:251-273) as one task of the JoinSet:
\* nothing is requested when the file exists; otherwise the request, through
\* retry, ends with the bytes (written by write_pom), an HTTP error or
\* another error
DownloadFile ==
    /\ hpc \in {"spawn", "joinfiles"}
    /\ \E i \in 1..Len(dl) :
        /\ dl[i].st = "spawned"
        /\ LET f == [repo |-> todo[ri].name, path |-> dl[i].path] IN
           IF FileExists(f, poms)
             THEN /\ dl' = [dl EXCEPT ![i].st = "ok"]
                  /\ UNCHANGED <<poms, requests, sent>>
             ELSE /\ requests' = requests \cup {[id |-> todo[ri].id, path |-> dl[i].path]}
                  /\ sent' = sent + 1
                  /\ \E r \in DownloadResults :
                        /\ dl' = [dl EXCEPT ![i].st = r.st, ![i].code = r.code]
                        /\ poms' = IF r.st = "ok" THEN poms \cup {f} ELSE poms
    /\ UNCHANGED <<hpc, todo, ri, tree, ti, has_file, ledger0, treeCalls, dispatched,
                   tree_res>>
    /\ UNCHANGED <<fetched, github_csv, finished, notHarvestVars>>

\* mod.rs:146-159: join_next; an HTTP error is logged, any other error ends
\* fetch_all_files_for (the JoinSet is dropped) and download_files
JoinFile ==
    /\ hpc = "joinfiles"
    /\ \E i \in 1..Len(dl) :
        /\ dl[i].st # "spawned"
        /\ IF dl[i].st = "other"
             THEN /\ hpc' = "failed"
                  /\ dl' = <<>>
             ELSE /\ dl' = SubSeq(dl, 1, i - 1) \o SubSeq(dl, i + 1, Len(dl))
                  /\ UNCHANGED hpc
    /\ UNCHANGED <<todo, ri, tree, ti, has_file, ledger0, treeCalls, dispatched, requests, sent, tree_res>>
    /\ UNCHANGED <<filesVars, finished, notHarvestVars>>

\* a join loop that ends while tasks are left in the JoinSet
JoinSetEmptyAlways(set) == TRUE

\* mod.rs:146: join_next answers None, the JoinSet is empty
JoinSetEmpty(set) == set = <<>>

\* mod.rs:146,161: every task is joined, mark_fetched is called
JoinFilesDone ==
    /\ hpc = "joinfiles"
    /\ JoinSetEmpty(dl)
    /\ hpc' = "mark_id"
    /\ UNCHANGED <<todo, ri, tree, ti, has_file, dl, ledger0, treeCalls,
                   dispatched, requests, sent, tree_res>>
    /\ UNCHANGED <<filesVars, finished, notHarvestVars>>

\* data.rs:188-189: the id is appended to `fetched`
MarkFetchedId ==
    /\ hpc = "mark_id"
    /\ fetched' = fetched \o todo[ri].id
    /\ hpc' = "mark_nl"
    /\ UNCHANGED <<todo, ri, tree, ti, has_file, dl, ledger0, treeCalls,
                   dispatched, requests, sent, tree_res>>
    /\ UNCHANGED <<github_csv, poms, finished, notHarvestVars>>

\* data.rs:188-189: the open or the write fails; `?` at mod.rs:161 (or at
\* mod.rs:121) ends fetch_all_files_for and, through `?`, its caller
MarkFetchedErr ==
    /\ hpc = "mark_id"
    /\ hpc' = "failed"
    /\ UNCHANGED <<todo, ri, tree, ti, has_file, dl, ledger0, treeCalls,
                   dispatched, requests, sent, tree_res>>
    /\ UNCHANGED <<filesVars, finished, notHarvestVars>>

\* data.rs:190: the newline is appended and fetch_all_files_for returns to
\* its caller: the loop of download_files goes on (mod.rs:194), or
\* load_repositories stores the row (mod.rs:183)
MarkFetchedNewline ==
    /\ hpc = "mark_nl"
    /\ fetched' = fetched \o <<"\n">>
    /\ ri' = IF entry = "load_repositories" THEN ri ELSE ri + 1
    /\ hpc' = IF entry = "load_repositories" THEN "store" ELSE "loop"
    /\ UNCHANGED <<todo, tree, ti, has_file, dl, ledger0, treeCalls,
                   dispatched, requests, sent, tree_res>>
    /\ UNCHANGED <<github_csv, poms, finished, notHarvestVars>>

HarvestNext ==
    \/ HarvestCtrlC
    \/ GetNonFetched
    \/ LoopNext
    \/ TreeOk
    \/ TreeHttpError
    \/ TreeOtherError
    \/ SpawnDownload
    \/ SpawnDone
    \/ DownloadFile
    \/ JoinFile
    \/ JoinFilesDone
    \/ MarkFetchedId
    \/ MarkFetchedErr
    \/ MarkFetchedNewline

\* ------------------------------------------------------------------------
\* Claims about the harvest
\* ------------------------------------------------------------------------
\* the ids that are lines of the ledger when the run starts, as strings
LedgerIdsAtStart == {Digits(ledger0[i]) : i \in 1..Len(ledger0)}

\* the ids of the rows of the result sink
SinkIds == {github_csv.bytes[i].id : i \in 2..Len(github_csv.bytes)}

\* C8: a harvest-only run sends no tree listing and no download for an id
\* that the ledger held at its start; what it harvests are rows of the sink
\* whose id the ledger did not hold.
C8_LedgeredNeverRequested ==
    /\ \A x \in LedgerIdsAtStart :
          /\ x \notin treeCalls
          /\ \A r \in requests : r.id # x
    /\ hpc # "start" =>
          /\ treeCalls \subseteq SinkIds \ LedgerIdsAtStart
          /\ \A i \in 1..Len(todo) : todo[i].id \notin LedgerIdsAtStart

\* the ledger held id 1 and not id 12, the sink lists both, and the run has
\* harvested 12 with a download
C8_Witness ==
    /\ Digits(1) \in LedgerIdsAtStart
    /\ Digits(1) \in SinkIds
    /\ Digits(LongId) \in treeCalls
    /\ \E r \in requests : r.id = Digits(LongId)
    /\ hpc = "done"

\* file is the end of path: path is some beginning followed by file
IsSuffix(file, path) == \E k \in 0..Len(path) : path = SubSeq(path, 1, k) \o file

\* the entries among the first n of the tree that end with the target
MatchingUpTo(n) == SelectSeq(SubSeq(tree, 1, n), LAMBDA q : IsSuffix(PomXml, q))

\* C9: the download tasks of a repository are the tree entries that end with
\* the target filename, one task for each in tree order, and no other path
\* is ever requested; [pom.xml, sub/pom.xml, readme.md] gives two tasks.
C9_TasksAreTheMatches ==
    /\ hpc = "spawn" => dispatched = MatchingUpTo(ti - 1)
    /\ hpc \in {"joinfiles", "mark_id", "mark_nl"} => dispatched = MatchingUpTo(Len(tree))
    /\ \A r \in requests : IsSuffix(PomXml, r.path)
    /\ (hpc = "joinfiles" /\ tree = <<PomXml, <<"sub/", "pom.xml">>, <<"readme.md">>>>) =>
          /\ Len(dispatched) = 2
          /\ \A r \in requests : r.path # <<"readme.md">>

\* the tree of the example has been gone through and both files requested
C9_Witness ==
    /\ hpc = "joinfiles"
    /\ tree = <<PomXml, <<"sub/", "pom.xml">>, <<"readme.md">>>>
    /\ dispatched = <<PomXml, <<"sub/", "pom.xml">>>>
    /\ Cardinality(requests) = 2

\* the download_file task at position i of the JoinSet returns in this step
TaskReturns(i) ==
    /\ Len(dl') = Len(dl)
    /\ dl[i].st = "spawned"
    /\ dl'[i].st # "spawned"

\* the destination file of the task at position i
Destination(i) == [repo |-> todo[ri].name, path |-> dl[i].path]

\* C27: a download_file task whose destination file exists returns Ok
\* without sending a request and leaves the stored files as they are; every
\* request that is sent is for a file that does not exist yet. A repository
\* harvested a second time with a tree whose files are all stored sends
\* nothing.
C27_DownloadIdempotent ==
    [][/\ \A i \in 1..Len(dl) :
              (TaskReturns(i) /\ Destination(i) \in poms) =>
                  /\ dl'[i].st = "ok"
                  /\ sent' = sent
                  /\ requests' = requests
                  /\ poms' = poms
       /\ sent' # sent =>
              /\ sent' = sent + 1
              /\ \E i \in 1..Len(dl) :
                    /\ TaskReturns(i)
                    /\ Destination(i) \notin poms
                    /\ poms' \subseteq poms \cup {Destination(i)}]_vars

\* github.csv names one repository twice; its first harvest sent two
\* requests and stored two files, its second harvest got the same tree,
\* dispatched the same two tasks, joined them and sent nothing
C27_Witness ==
    /\ hpc = "mark_id"
    /\ ri = 2
    /\ todo[1] = todo[2]
    /\ dispatched = <<PomXml, <<"sub/", "pom.xml">>>>
    /\ poms = {[repo |-> todo[2].name, path |-> dispatched[e]] : e \in 1..2}
    /\ sent = 2

\* the ledger lines of the first n repositories of the run
RECURSIVE IdLines(_)
IdLines(n) == IF n = 0 THEN <<>> ELSE IdLines(n - 1) \o todo[n].id \o <<"\n">>

\* the repository at `ri` is being harvested
InProgress == hpc \in {"tree", "spawn", "joinfiles", "mark_id", "mark_nl"}

\* the ledger is the one the run found followed by one line for each
\* repository the loop has gone past, in their order, and by the id of the
\* one whose line is being written
HarvestedInOrder ==
    hpc # "start" =>
        fetched = LedgerBytes(ledger0) \o IdLines(ri - 1)
                    \o (IF hpc = "mark_nl" THEN todo[ri].id ELSE <<>>)

\* C38: download_files harvests the repositories in order, one at a time:
\* the ledger is the old one followed by a line for each repository before
\* the current one, also when the run has failed or has been cancelled. A
\* tree call is made only by a turn of the loop that read the flag as
\* false; a true reading ends the run, and an ended run, failed or not, does nothing
\* more; setting the flag while a repository is in progress changes nothing
\* to its harvest, which goes on to its ledger line unless it fails.
C38_HarvestOnlyCancellation ==
    /\ []HarvestedInOrder
    /\ [][/\ hpc \notin {"done", "failed"}
          /\ (hpc = "loop" /\ finished) => hpc' = "done"
          /\ treeCalls' # treeCalls => hpc = "tree"
          /\ (hpc # "tree" /\ hpc' = "tree") => (hpc = "loop" /\ ~finished)
          /\ (finished /\ InProgress /\ ~InProgress') =>
               \/ hpc' = "failed"
               \/ hpc' = "loop" /\ ri' = ri + 1 /\ hpc = "mark_nl"
                    /\ fetched' = fetched \o <<"\n">>]_vars

\* the flag was set while the first of two repositories was harvested: its
\* line is in the ledger, the tree of the second was never listed
C38_Witness ==
    /\ hpc = "done"
    /\ finished
    /\ Len(todo) = 2 /\ ri = 2
    /\ todo[1].id # todo[2].id
    /\ todo[1].id \in DoneSet(fetched)
    /\ todo[1].id \in treeCalls
    /\ todo[2].id \notin treeCalls
    /\ todo[2].id \notin DoneSet(fetched)

\* ------------------------------------------------------------------------
\* Data::store_repo (data.rs:132-159)
\* ------------------------------------------------------------------------
Writers == 1..MaxWriters

\* the rows the callers store
StoreRows == {CsvRow(Repo(i), b) : i \in 1..MaxRepos, b \in BOOLEAN}

NoFd == [mode |-> "none", headers |-> FALSE]

\* a writer that puts the header before every first record it writes
HasHeadersAlways(exists) == TRUE

\* data.rs:138-148: has_headers(false) on the existing file, has_headers(true)
\* on the file just created
HasHeaders(exists) == ~exists

\* the sink before the calls: no file, an empty file, or a header and a row
SinkInit ==
    /\ csv_lock = 0
    /\ writers \in {1..n : n \in 1..MaxWriters}
    /\ wpc = [w \in Writers |-> "idle"]
    /\ wfd = [w \in Writers |-> NoFd]
    /\ wbuf = [w \in Writers |-> <<>>]
    /\ csv0 \in {NoFile, FileOf(<<>>), FileOf(<<CsvHeader, CsvRow(Repo(LongId), TRUE)>>)}
    /\ github_csv = csv0
    /\ calls = <<>>

SinkIdle ==
    /\ csv_lock = 0
    /\ writers = {}
    /\ wpc = [w \in Writers |-> "idle"]
    /\ wfd = [w \in Writers |-> NoFd]
    /\ wbuf = [w \in Writers |-> <<>>]
    /\ csv0 = NoFile
    /\ calls = <<>>

\* mod.rs:184: store_repo is called with a row (data.rs:132-134)
StoreCall(w) ==
    /\ w \in writers
    /\ wpc[w] = "idle"
    /\ Len(calls) < MaxStores
    /\ \E row \in StoreRows :
        /\ calls' = Append(calls, row)
        /\ wbuf' = [wbuf EXCEPT ![w] = <<row>>]
    /\ wpc' = [wpc EXCEPT ![w] = "s_lock"]
    /\ UNCHANGED <<csv_lock, writers, wfd, csv0, github_csv>>
    /\ UNCHANGED notSinkVars

\* data.rs:136: lock.lock()
StoreLock(w) ==
    /\ w \in writers
    /\ wpc[w] = "s_lock"
    /\ csv_lock = 0
    /\ csv_lock' = w
    /\ wpc' = [wpc EXCEPT ![w] = "s_open"]
    /\ UNCHANGED <<writers, wfd, wbuf, csv0, calls, github_csv>>
    /\ UNCHANGED notSinkVars

\* data.rs:138-148: the file is opened for append when it exists, created
\* empty otherwise; the writer is built with or without headers
StoreOpen(w) ==
    /\ w \in writers
    /\ wpc[w] = "s_open"
    /\ wfd' = [wfd EXCEPT ![w] =
                 [mode |-> IF github_csv.exists THEN "append" ELSE "create",
                  headers |-> HasHeaders(github_csv.exists)]]
    /\ github_csv' = IF github_csv.exists THEN github_csv ELSE FileOf(<<>>)
    /\ wpc' = [wpc EXCEPT ![w] = "s_serialize"]
    /\ UNCHANGED <<csv_lock, writers, wbuf, csv0, calls>>
    /\ UNCHANGED notSinkVars

\* data.rs:150-152: serialize puts the header, when the writer has headers,
\* and the row into the writer's buffer; then the guard is dropped
StoreSerialize(w) ==
    /\ w \in writers
    /\ wpc[w] = "s_serialize"
    /\ wbuf' = [wbuf EXCEPT ![w] =
                  IF wfd[w].headers THEN <<CsvHeader>> \o @ ELSE @]
    /\ csv_lock' = 0
    /\ wpc' = [wpc EXCEPT ![w] = "s_flush"]
    /\ UNCHANGED <<writers, wfd, csv0, calls, github_csv>>
    /\ UNCHANGED notSinkVars

\* data.rs:155: the closure ends, the csv::Writer is dropped and flushes: at
\* the end of a file opened for append, at the start of a file it created
StoreFlush(w) ==
    /\ w \in writers
    /\ wpc[w] = "s_flush"
    /\ github_csv' =
          FileOf(IF wfd[w].mode = "append"
                   THEN github_csv.bytes \o wbuf[w]
                   ELSE WriteAt(github_csv.bytes, 0, wbuf[w]))
    /\ wbuf' = [wbuf EXCEPT ![w] = <<>>]
    /\ wfd' = [wfd EXCEPT ![w] = NoFd]
    /\ wpc' = [wpc EXCEPT ![w] = "idle"]
    /\ UNCHANGED <<csv_lock, writers, csv0, calls>>
    /\ UNCHANGED notSinkVars

SinkNext ==
    \/ \E w \in Writers : StoreCall(w)
    \/ \E w \in Writers : StoreLock(w)
    \/ \E w \in Writers : StoreOpen(w)
    \/ \E w \in Writers : StoreSerialize(w)
    \/ \E w \in Writers : StoreFlush(w)

\* ------------------------------------------------------------------------
\* Claims about the result sink
\* ------------------------------------------------------------------------
HeaderCount(ls) == Cardinality({i \in 1..Len(ls) : ls[i] = CsvHeader})
DataRows(ls) == SelectSeq(ls, LAMBDA l : l # CsvHeader)

\* C10: with one caller at a time, n calls on an absent file leave one header
\* line, the first, followed by the n rows in call order; a call on a file
\* that exists adds its row at the end and no header.
C10_SequentialStores ==
    (writers = {1} /\ wpc[1] = "idle" /\ calls # <<>>) =>
        IF csv0.exists
          THEN github_csv = FileOf(csv0.bytes \o calls)
          ELSE /\ github_csv.exists
               /\ github_csv.bytes[1] = CsvHeader
               /\ HeaderCount(github_csv.bytes) = 1
               /\ DataRows(github_csv.bytes) = calls
               /\ Len(github_csv.bytes) = 1 + Len(calls)

\* three rows stored one after the other into a file that did not exist
C10_Witness ==
    /\ writers = {1}
    /\ wpc[1] = "idle"
    /\ ~csv0.exists
    /\ Len(calls) = 3
    /\ calls[1] # calls[2]
    /\ github_csv = FileOf(<<CsvHeader>> \o calls)

\* the number of times x occurs in the sequence q
Occurrences(q, x) == Cardinality({i \in 1..Len(q) : q[i] = x})

\* the writer holds the mutex or has bytes in its csv::Writer to write
InStoreRepo(w) == wpc[w] \in {"s_open", "s_serialize", "s_flush"}

\* C28: no two callers are between the existence check and the write of
\* their row at the same time; and when every call made on an absent file
\* has returned, the file holds one header line and, for every call, its
\* row, once.
C28_ConcurrentStores ==
    /\ \A v, w \in writers : (InStoreRepo(v) /\ InStoreRepo(w)) => v = w
    /\ (~csv0.exists /\ calls # <<>> /\ \A w \in writers : wpc[w] = "idle") =>
          /\ github_csv.exists
          /\ HeaderCount(github_csv.bytes) = 1
          /\ Len(github_csv.bytes) = 1 + Len(calls)
          /\ \A row \in StoreRows :
                Occurrences(github_csv.bytes, row) = Occurrences(calls, row)

\* ------------------------------------------------------------------------
\* Response classification: handle_response (github.rs:334-354) and its copy
\* in fetch_more_data (fetch_more_data/src/api.rs:165-183)
\* ------------------------------------------------------------------------
\* the status codes explored: 2xx, redirect, client and server errors
Statuses == {200, 204, 299, 301, 403, 404, 422, 429, 500, 503}

\* StatusCode::TOO_MANY_REQUESTS and StatusCode::UNPROCESSABLE_ENTITY
TooManyRequests == 429
UnprocessableEntity == 422

\* the message of an error body, as a sequence of pieces of text
Pieces == {"abuse", "rate ", "limit", "Not Found"}
Messages == UNION {[1..n -> Pieces] : n \in 0..MaxMsgLen}

\* a body either deserializes to a GitHubError (github.rs:27-32) or not
Undecodable == [decodes |-> FALSE, message |-> <<>>]
Bodies == {Undecodable} \cup {[decodes |-> TRUE, message |-> m] : m \in Messages}

\* send() failed: there is no response
NoResponse == [sent |-> FALSE, status |-> 0, body |-> Undecodable]
Responses ==
    {NoResponse} \cup
    {[sent |-> TRUE, status |-> st, body |-> b] : st \in Statuses, b \in Bodies}

Clients == {"scraper", "fetch_more_data"}

\* str::contains: the needle is a run of consecutive pieces of the message
Contains(msg, needle) ==
    \E i \in 1..(Len(msg) - Len(needle) + 1) :
        SubSeq(msg, i, i + Len(needle) - 1) = needle

Abuse == <<"abuse">>
RateLimitText == <<"rate ", "limit">>

\* StatusCode::is_success
IsSuccess(status) == status >= 200 /\ status <= 299

\* the variants of Error (github.rs:103-112) with the status they carry
ResultOk(status) == [kind |-> "Ok", status |-> status]
ErrRateLimit(status) == [kind |-> "RateLimit", status |-> status]
ErrHttpError(status) == [kind |-> "HttpError", status |-> status]
ErrReqwest == [kind |-> "Reqwest", status |-> 0]

\* github.rs:334-354
handle_response(resp) ==
    IF IsSuccess(resp.status) THEN ResultOk(resp.status)
    ELSE IF resp.status = TooManyRequests \/ resp.status = UnprocessableEntity
      THEN ErrRateLimit(resp.status)
    ELSE IF resp.body.decodes
      THEN IF Contains(resp.body.message, Abuse)
                \/ Contains(resp.body.message, RateLimitText)
             THEN ErrRateLimit(resp.status)
             ELSE ErrHttpError(resp.status)
    ELSE ErrHttpError(resp.status)

\* fetch_more_data/src/api.rs:165-183: `resp.json().await?` turns a body that
\* does not decode into the Reqwest error
handle_response_fetch_more_data(resp) ==
    IF IsSuccess(resp.status) THEN ResultOk(resp.status)
    ELSE IF resp.status = TooManyRequests \/ resp.status = UnprocessableEntity
      THEN ErrRateLimit(resp.status)
    ELSE IF resp.body.decodes
      THEN IF Contains(resp.body.message, Abuse)
                \/ Contains(resp.body.message, RateLimitText)
             THEN ErrRateLimit(resp.status)
             ELSE ErrHttpError(resp.status)
    ELSE ErrReqwest

\* github.rs:222-225, api.rs:96-98: `send().await?` then handle_response
Attempted(c, resp) ==
    IF ~resp.sent THEN ErrReqwest
    ELSE IF c = "scraper" THEN handle_response(resp)
    ELSE handle_response_fetch_more_data(resp)

\* a request of one of the clients has been sent and answered
ClassifyInit ==
    /\ kpc = "sent"
    /\ client \in Clients
    /\ response \in Responses
    /\ classified = ErrReqwest

\* the closure given to retry classifies what came back
Classify ==
    /\ kpc = "sent"
    /\ classified' = Attempted(client, response)
    /\ kpc' = "classified"
    /\ UNCHANGED <<client, response>>
    /\ UNCHANGED <<retryVars, cursorVars, scanVars, finished, filesVars,
                   harvestVars, sinkVars, batchVars, appenders, setters, workflowVars>>

\* retry calls the closure again after a RateLimit (github.rs:297,303-323)
NextRequest ==
    /\ kpc = "classified"
    /\ classified.kind = "RateLimit"
    /\ \E r \in Responses : response' = r
    /\ kpc' = "sent"
    /\ UNCHANGED <<client, classified>>
    /\ UNCHANGED <<retryVars, cursorVars, scanVars, finished, filesVars,
                   harvestVars, sinkVars, batchVars, appenders, setters, workflowVars>>

ClassifyNext ==
    \/ Classify
    \/ NextRequest

\* what the classification rules give for a response
Claimed(resp) ==
    IF ~resp.sent THEN [kind |-> "Reqwest", status |-> 0]
    ELSE IF resp.status \in 200..299 THEN [kind |-> "Ok", status |-> resp.status]
    ELSE IF resp.status \in {429, 422}
      THEN [kind |-> "RateLimit", status |-> resp.status]
    ELSE IF /\ resp.body.decodes
            /\ \E i \in 1..Len(resp.body.message) :
                  \/ resp.body.message[i] = "abuse"
                  \/ /\ i < Len(resp.body.message)
                     /\ resp.body.message[i] = "rate "
                     /\ resp.body.message[i + 1] = "limit"
      THEN [kind |-> "RateLimit", status |-> resp.status]
    ELSE [kind |-> "HttpError", status |-> resp.status]

\* C19: in both clients a classified request carries what the rules give:
\* success for 2xx, RateLimit for 429 and 422 whatever the body, RateLimit
\* for another status whose decoded message contains "abuse" or "rate
\* limit", HttpError with the status otherwise, a body that does not decode
\* included, and the Reqwest error for a transport failure.
C19_Classification ==
    kpc = "classified" => classified = Claimed(response)

\* the same statement for the scraper's own client alone
ScraperClassification ==
    (kpc = "classified" /\ client = "scraper") => classified = Claimed(response)

\* ------------------------------------------------------------------------
\* Scraper::load_repositories (mod.rs:167-189): one batch of a scan run
\* ------------------------------------------------------------------------
\* the repositories of the batch; LongId is a repository of an earlier batch
BatchIds == 1..MaxRepos

\* languages.nodes (github.rs:88-96): Vec<Option<GraphLanguage>>
LanguageLists == {<<"Rust", "None">>, <<"None", "Java">>}

\* GraphRepository (github.rs:73-77)
GraphRepo(i, langs) == [id |-> Digits(i), name_with_owner |-> i, languages |-> langs]

\* GraphRepository::to_repo (github.rs:80-85)
ToRepo(g) == [id |-> g.id, name |-> g.name_with_owner]

\* a row that says has_pom whatever the harvest found
ToCsvRepoTrue(r, b) == CsvRow(r, TRUE)

\* Repo::to_csv_repo (main.rs:47-53)
ToCsvRepo(r, b) == CsvRow(r, b)

\* github.rs:206: the largest cost the assert lets pass
MaxQueryCost == 1

\* github.rs:210: the nodes the query answered, in the order of the ids it
\* was asked for, None dropped: some of the repositories of the batch, each
\* once, with their languages
DetailAnswers ==
    {g \in UNION {[1..n -> {GraphRepo(i, l) : i \in BatchIds, l \in LanguageLists}] :
                    n \in 0..MaxRepos} :
        \A i, j \in 1..Len(g) : i < j => g[i].name_with_owner < g[j].name_with_owner}

\* mod.rs:172-177: .iter().filter_map(Option::as_ref).any(|el| el.name == "Java")
HasJava(langs) == \E i \in 1..Len(langs) : langs[i] = "Java"

\* a loop that stores the row of a Java repository without harvesting it
BatchStepNoHarvest(g, i) ==
    IF i > Len(g) THEN "done"
    ELSE IF HasJava(g[i].languages) THEN "store"
    ELSE "skip"

\* mod.rs:171-186: what the for loop does with the repository at position i
BatchStep(g, i) ==
    IF i > Len(g) THEN "done"
    ELSE IF HasJava(g[i].languages) THEN "tree"
    ELSE "skip"

\* the data directory when the batch starts: earlier batches of the run left
\* nothing, a ledger entry, or a ledger entry and a row
BatchFilesInit ==
    /\ \E f \in {<<NoFile, <<>>>>,
                 <<NoFile, <<LongId>>>>,
                 <<FileOf(<<CsvHeader, CsvRow(Repo(LongId), TRUE)>>), <<LongId>>>>} :
          /\ csv0 = f[1]
          /\ ledger0 = f[2]
    /\ github_csv = csv0
    /\ fetched = LedgerBytes(ledger0)
    /\ poms = {}

\* the batch task is the only caller of store_repo
BatchInit ==
    /\ entry = "load_repositories"
    /\ graph_repos = <<>>
    /\ concluded = <<>>
    /\ cost = 0
    /\ csv_lock = 0
    /\ writers = {1}
    /\ wpc = [w \in Writers |-> "idle"]
    /\ wfd = [w \in Writers |-> NoFd]
    /\ wbuf = [w \in Writers |-> <<>>]
    /\ calls = <<>>

\* the cost a detail response declares: the expected one, and a larger one
Costs == {MaxQueryCost, MaxQueryCost + 1}

\* a check that lets every cost pass
CostAllowedAlways(c) == TRUE

\* github.rs:205-208: assert!(data.rate_limit.cost <= 1, ..)
CostAllowed(c) == c <= MaxQueryCost

\* mod.rs:170 -> github.rs:193-210: the detail query answers; an answer that
\* declares too high a cost makes the assert panic, and the batch task ends
DetailOk ==
    /\ entry = "load_repositories"
    /\ hpc = "start"
    /\ \E g \in DetailAnswers : \E c \in Costs :
        /\ cost' = c
        /\ IF CostAllowed(c)
             THEN /\ graph_repos' = g
                  /\ todo' = [i \in 1..Len(g) |-> ToRepo(g[i])]
                  /\ hpc' = "bloop"
             ELSE /\ hpc' = "panicked"
                  /\ UNCHANGED <<graph_repos, todo>>
    /\ ri' = 1
    /\ UNCHANGED <<entry, concluded>>
    /\ UNCHANGED <<tree, ti, has_file, dl, ledger0, treeCalls, dispatched, requests, sent, tree_res>>
    /\ UNCHANGED <<retryVars, cursorVars, scanVars, finished, filesVars, sinkVars,
                   classifyVars, appenders, setters, workflowVars>>

\* mod.rs:170: the detail query fails (github.rs:193-208); `?` ends the batch
DetailErr ==
    /\ entry = "load_repositories"
    /\ hpc = "start"
    /\ hpc' = "failed"
    /\ UNCHANGED <<retryVars, cursorVars, scanVars, finished, filesVars, sinkVars,
                   batchVars, classifyVars, appenders, setters, workflowVars>>
    /\ UNCHANGED <<todo, ri, tree, ti, has_file, dl, ledger0, treeCalls,
                   dispatched, requests, sent, tree_res>>

\* mod.rs:171-178: the next repository of the answer; one without Java is
\* passed over
BatchLoop ==
    /\ entry = "load_repositories"
    /\ hpc = "bloop"
    /\ LET step == BatchStep(graph_repos, ri) IN
        /\ hpc' = IF step = "skip" THEN "bloop" ELSE step
        /\ ri' = IF step = "skip" THEN ri + 1 ELSE ri
    /\ UNCHANGED <<retryVars, cursorVars, scanVars, finished, filesVars, sinkVars,
                   batchVars, classifyVars, appenders, setters, workflowVars>>
    /\ UNCHANGED <<todo, tree, ti, has_file, dl, ledger0, treeCalls,
                   dispatched, requests, sent, tree_res>>

\* mod.rs:183 -> data.rs:132-134: fetch_all_files_for returned Ok(has_files);
\* store_repo is called with the row
StoreRepoCall ==
    /\ entry = "load_repositories"
    /\ hpc = "store"
    /\ wpc[1] = "idle"
    /\ LET row == ToCsvRepo(todo[ri], has_file) IN
        /\ calls' = Append(calls, row)
        /\ wbuf' = [wbuf EXCEPT ![1] = <<row>>]
    /\ wpc' = [wpc EXCEPT ![1] = "s_lock"]
    /\ concluded' = Append(concluded,
                           [id |-> todo[ri].id,
                            http |-> tree_res = "http",
                            matched |-> \E e \in 1..Len(tree) : IsSuffix(PomXml, tree[e])])
    /\ hpc' = "storing"
    /\ UNCHANGED <<entry, graph_repos, cost>>
    /\ UNCHANGED <<csv_lock, writers, wfd, csv0>>
    /\ UNCHANGED <<todo, ri, tree, ti, has_file, dl, ledger0, treeCalls,
                   dispatched, requests, sent, tree_res>>
    /\ UNCHANGED <<retryVars, cursorVars, scanVars, finished, filesVars,
                   classifyVars, appenders, setters, workflowVars>>

\* mod.rs:183: store_repo has returned, the for loop goes on
StoreRepoReturn ==
    /\ entry = "load_repositories"
    /\ hpc = "storing"
    /\ wpc[1] = "idle"
    /\ ri' = ri + 1
    /\ hpc' = "bloop"
    /\ UNCHANGED <<retryVars, cursorVars, scanVars, finished, filesVars, sinkVars,
                   batchVars, classifyVars, appenders, setters, workflowVars>>
    /\ UNCHANGED <<todo, tree, ti, has_file, dl, ledger0, treeCalls,
                   dispatched, requests, sent, tree_res>>

BatchNext ==
    \/ DetailOk
    \/ DetailErr
    \/ BatchLoop
    \/ TreeOk
    \/ TreeHttpError
    \/ TreeOtherError
    \/ SpawnDownload
    \/ SpawnDone
    \/ DownloadFile
    \/ JoinFile
    \/ JoinFilesDone
    \/ MarkFetchedId
    \/ MarkFetchedErr
    \/ MarkFetchedNewline
    \/ StoreRepoCall
    \/ \E w \in Writers : StoreLock(w)
    \/ \E w \in Writers : StoreOpen(w)
    \/ \E w \in Writers : StoreSerialize(w)
    \/ \E w \in Writers : StoreFlush(w)
    \/ StoreRepoReturn

\* ------------------------------------------------------------------------
\* Claims about a batch
\* ------------------------------------------------------------------------
\* how many lines of a ledger are `id`
LedgerCount(b, id) ==
    LET ls == SplitLines(b, <<>>) IN Cardinality({i \in 1..Len(ls) : ls[i] = id})

\* the rows of a sink file that carry `id`
RowsOf(f, id) == {i \in 2..Len(f.bytes) : f.bytes[i].id = id}

Stored == IF hpc = "storing" THEN Len(concluded) - 1 ELSE Len(concluded)

PassedOver ==
    IF hpc = "done" THEN 1..Len(graph_repos)
    ELSE IF hpc = "failed" THEN {}
    ELSE 1..(ri - 1)

\* C16: a repository of the answer without Java among its languages, once
\* the loop has gone past it, is a line of the ledger and has no row.
C16_NonJavaLedgered ==
    \A i \in PassedOver :
        "Java" \notin RangeOf(graph_repos[i].languages) =>
            /\ graph_repos[i].id \in DoneSet(fetched)
            /\ RowsOf(github_csv, graph_repos[i].id) = {}

\* the join loop at mod.rs:146-159 takes a task that ended with an error
\* other than Error::HttpError
JoinsOtherError ==
    /\ hpc = "joinfiles"
    /\ \E i \in 1..Len(dl) : dl[i].st = "other"
    /\ dl' = <<>>

\* C24: when a download of a repository of the batch is joined with an
\* error that is no HTTP error, the repository gets no ledger entry and no
\* row, and load_repositories does not end: its for loop goes on with the
\* repositories after it.
C24_DownloadErrorAbortsOnlyRepo ==
    [][(entry = "load_repositories" /\ JoinsOtherError /\ ri < Len(graph_repos)) =>
          /\ fetched' = fetched
          /\ github_csv' = github_csv
          /\ hpc' # "failed"]_vars

\* the task at position i of the JoinSet is taken by join_next with the
\* error Error::HttpError(c)
JoinsHttpError(i, c) ==
    /\ hpc = "joinfiles"
    /\ dl[i].st = "http"
    /\ dl[i].code = c
    /\ hpc' = "failed" \/ dl' = SubSeq(dl, 1, i - 1) \o SubSeq(dl, i + 1, Len(dl))

\* C25: a download joined with HTTP status 404 is passed over and the
\* join loop goes on towards the ledger entry and the row; a download joined
\* with any other HTTP status ends the harvest of the repository, whose id is
\* not appended to the ledger.
C25_OnlyNotFoundIsSkipped ==
    [][\A i \in 1..Len(dl) : \A c \in DownloadStatuses :
          (entry = "load_repositories" /\ JoinsHttpError(i, c)) =>
              IF c = 404
                THEN hpc' = "joinfiles"
                ELSE hpc' = "failed" /\ fetched' = fetched]_vars

\* C26: a file tree is requested only for a repository of the detail
\* answer, after the answer has come; a download is sent only for a path of
\* the tree that was answered for the repository; the ledger is appended to
\* only when no download task of the repository is left in the JoinSet; and
\* store_repo is called for a repository only when the ledger ends with its
\* complete entry.
C26_StagesInOrder ==
    [][/\ treeCalls' # treeCalls =>
              /\ hpc = "tree"
              /\ graph_repos # <<>>
              /\ \E i \in 1..Len(graph_repos) :
                    treeCalls' = treeCalls \cup {graph_repos[i].id}
       /\ requests' # requests =>
              /\ hpc \in {"spawn", "joinfiles"}
              /\ todo[ri].id \in treeCalls
              /\ \E e \in 1..Len(tree) :
                    requests' = requests \cup {[id |-> todo[ri].id, path |-> tree[e]]}
       /\ fetched' # fetched =>
              /\ dl = <<>>
              /\ todo[ri].id \in treeCalls
       /\ calls' # calls =>
              /\ dl = <<>>
              /\ EndsWithSeq(fetched, todo[ri].id \o <<"\n">>)
              /\ calls'[Len(calls')].id = todo[ri].id]_vars

\* the batch has gone through the detail answer, a tree, a download that
\* stored a file, the ledger entry and the row of its first repository
C26_Witness ==
    /\ entry = "load_repositories"
    /\ hpc = "bloop"
    /\ ri = 2
    /\ Len(calls) = 1
    /\ calls[1].has_pom
    /\ poms # {}
    /\ requests # {}
    /\ RowsOf(github_csv, graph_repos[1].id) # {}
    /\ graph_repos[1].id \in DoneSet(fetched)

\* C32: when the detail response declares a cost above 1, the batch task
\* has panicked and no repository is taken from the answer: no tree is
\* requested, no download is sent or stored, the ledger and the result sink
\* are as they were when the batch started.
C32_CostlyBatchTouchesNothing ==
    cost > 1 =>
        /\ hpc = "panicked"
        /\ graph_repos = <<>>
        /\ treeCalls = {}
        /\ requests = {} /\ sent = 0 /\ poms = {}
        /\ fetched = LedgerBytes(ledger0)
        /\ github_csv = csv0 /\ calls = <<>>

\* a detail response of cost 2 has come for a batch that started with a
\* ledger entry and a row of an earlier batch
C32_Witness ==
    /\ entry = "load_repositories"
    /\ cost = 2
    /\ hpc = "panicked"
    /\ ledger0 = <<LongId>>
    /\ csv0.exists

\* the repository whose tree call returned an HTTP error is being concluded
AfterTreeHttpError ==
    tree_res = "http" /\ hpc \in {"mark_id", "mark_nl", "store", "storing"}

\* what holds of the repository whose tree call returned an error
TreeErrorHandled ==
    /\ AfterTreeHttpError =>
          /\ dl = <<>> /\ dispatched = <<>> /\ ~has_file
          /\ \A q \in requests : q.id # todo[ri].id
    /\ \A i \in 1..Len(concluded) :
          concluded[i].http =>
             /\ calls[i].id = concluded[i].id
             /\ ~calls[i].has_pom
             /\ LedgerCount(fetched, concluded[i].id)
                   = LedgerCount(LedgerBytes(ledger0), concluded[i].id) + 1
    /\ tree_res = "other" =>
          /\ hpc = "failed"
          /\ LedgerCount(fetched, todo[ri].id)
                = LedgerCount(LedgerBytes(ledger0), todo[ri].id)
          /\ \A i \in 1..Len(calls) : calls[i].id # todo[ri].id

AppendInit ==
    /\ ledger0 \in {<<>>, <<LongId>>}
    /\ fetched = LedgerBytes(ledger0)
    /\ github_csv = NoFile
    /\ poms = {}
    /\ appenders = <<>>

\* main.rs:97-105: the next record of github.csv whose id is not in `done`
\* has been harvested; a task is spawned for its ledger entry, and the file
\* is opened for append (main.rs:106-110)
IterateSpawn ==
    /\ Len(appenders) < MaxAppends
    /\ \A t \in 1..Len(appenders) : appenders[t].pc # "joined"
    /\ \E i \in 1..MaxRepos :
        /\ NotDone(DoneSet(LedgerBytes(ledger0)), Repo(i).id)
        /\ appenders' = Append(appenders, [id |-> Repo(i).id, pc |-> "id"])
    /\ UNCHANGED <<retryVars, cursorVars, scanVars, finished, filesVars,
                   harvestVars, sinkVars, batchVars, classifyVars, setters, workflowVars>>

\* main.rs:111 (data.rs:189): write_all of the id, at the end of the file
AppendId(t) ==
    /\ t \in 1..Len(appenders)
    /\ appenders[t].pc = "id"
    /\ fetched' = fetched \o appenders[t].id
    /\ appenders' = [appenders EXCEPT ![t].pc = "nl"]
    /\ UNCHANGED <<retryVars, cursorVars, scanVars, finished, github_csv, poms,
                   harvestVars, sinkVars, batchVars, classifyVars, setters, workflowVars>>

\* main.rs:112 (data.rs:190): write_all of the newline, at the end of the file
AppendNewline(t) ==
    /\ t \in 1..Len(appenders)
    /\ appenders[t].pc = "nl"
    /\ fetched' = fetched \o <<"\n">>
    /\ appenders' = [appenders EXCEPT ![t].pc = "done"]
    /\ UNCHANGED <<retryVars, cursorVars, scanVars, finished, github_csv, poms,
                   harvestVars, sinkVars, batchVars, classifyVars, setters, workflowVars>>

\* main.rs:117-119: after the loop, join_next takes a task that has ended
IterateJoin ==
    /\ \E t \in 1..Len(appenders) :
        /\ appenders[t].pc = "done"
        /\ appenders' = [appenders EXCEPT ![t].pc = "joined"]
    /\ UNCHANGED <<retryVars, cursorVars, scanVars, finished, filesVars,
                   harvestVars, sinkVars, batchVars, classifyVars, setters, workflowVars>>

AppendNext ==
    \/ IterateSpawn
    \/ \E t \in 1..MaxAppends : AppendId(t)
    \/ \E t \in 1..MaxAppends : AppendNewline(t)
    \/ IterateJoin

\* the ids the tasks were spawned for, in spawn order
AppendedIds == [t \in 1..Len(appenders) |-> appenders[t].id]

\* C29: no two tasks are between the write of their id and the write of
\* their newline at the same time; and when every task has ended, every line
\* of the ledger is one complete id: the lines are those the ledger started
\* with and, for every task, its id, once.
C29_LedgerAppendsSerialized ==
    /\ Cardinality({t \in 1..Len(appenders) : appenders[t].pc = "nl"}) <= 1
    /\ (\A t \in 1..Len(appenders) : appenders[t].pc \in {"done", "joined"}) =>
          LET lines == SplitLines(fetched, <<>>)
              ids == [i \in 1..Len(ledger0) |-> Digits(ledger0[i])] \o AppendedIds IN
            /\ Len(lines) = Len(ids)
            /\ \A x \in RangeOf(lines) \cup RangeOf(ids) :
                  Occurrences(lines, x) = Occurrences(ids, x)

\* ------------------------------------------------------------------------
\* Data::set_last_id (data.rs:104-130) called by several tasks that hold
\* clones of one Data: the cache, the mutex and the file are shared
\* ------------------------------------------------------------------------
\* the ids the callers store: one digit, and two digits
CursorIds == {1, LongId}

\* data.rs:104: each task calls set_last_id once, with its id
SetInit ==
    /\ \E n \in 1..MaxSetters : \E ids \in [1..n -> CursorIds] :
          setters = [c \in 1..n |-> [pc |-> "store", id |-> ids[c], buf |-> <<>>]]

\* data.rs:105: self.state_cache.store(id, SeqCst), before the lock is taken
SetStore(c) ==
    /\ c \in 1..Len(setters)
    /\ setters[c].pc = "store"
    /\ state_cache' = setters[c].id
    /\ setters' = [setters EXCEPT ![c].pc = "lock"]
    /\ UNCHANGED <<state_file, state_file_lock, write_buf>>
    /\ UNCHANGED <<retryVars, scanVars, finished, filesVars, harvestVars, sinkVars,
                   batchVars, classifyVars, appenders, workflowVars>>

\* data.rs:110: lock.lock() inside spawn_blocking
SetLock(c) ==
    /\ c \in 1..Len(setters)
    /\ setters[c].pc = "lock"
    /\ state_file_lock = "free"
    /\ state_file_lock' = "held"
    /\ setters' = [setters EXCEPT ![c].pc = "create"]
    /\ UNCHANGED <<state_cache, state_file, write_buf>>
    /\ UNCHANGED <<retryVars, scanVars, finished, filesVars, harvestVars, sinkVars,
                   batchVars, classifyVars, appenders, workflowVars>>

\* data.rs:112: File::create makes the file or truncates it to zero length
SetCreate(c) ==
    /\ c \in 1..Len(setters)
    /\ setters[c].pc = "create"
    /\ state_file' = FileOf(<<>>)
    /\ setters' = [setters EXCEPT ![c].pc = "write"]
    /\ UNCHANGED <<state_cache, state_file_lock, write_buf>>
    /\ UNCHANGED <<retryVars, scanVars, finished, filesVars, harvestVars, sinkVars,
                   batchVars, classifyVars, appenders, workflowVars>>

\* data.rs:113-122: the document of the caller's id and the newline go into
\* its BufWriter; then the guard is dropped
SetWrite(c) ==
    /\ c \in 1..Len(setters)
    /\ setters[c].pc = "write"
    /\ setters' = [setters EXCEPT ![c].pc = "flush",
                                  ![c].buf = CursorBytes(setters[c].id)]
    /\ state_file_lock' = "free"
    /\ UNCHANGED <<state_cache, state_file, write_buf>>
    /\ UNCHANGED <<retryVars, scanVars, finished, filesVars, harvestVars, sinkVars,
                   batchVars, classifyVars, appenders, workflowVars>>

\* data.rs:125: the closure ends, the BufWriter is dropped and flushes its
\* bytes at the start of the file it created; data.rs:126-129 the call returns
SetFlush(c) ==
    /\ c \in 1..Len(setters)
    /\ setters[c].pc = "flush"
    /\ state_file' = FileOf(WriteAt(state_file.bytes, 0, setters[c].buf))
    /\ setters' = [setters EXCEPT ![c].pc = "returned", ![c].buf = <<>>]
    /\ UNCHANGED <<state_cache, state_file_lock, write_buf>>
    /\ UNCHANGED <<retryVars, scanVars, finished, filesVars, harvestVars, sinkVars,
                   batchVars, classifyVars, appenders, workflowVars>>

SetNext ==
    \E c \in 1..MaxSetters :
        \/ SetStore(c)
        \/ SetLock(c)
        \/ SetCreate(c)
        \/ SetWrite(c)
        \/ SetFlush(c)

\* data.rs:100-102: get_last_id
get_last_id == state_cache

\* C33: once every call of set_last_id has returned, the cursor file holds
\* a State document whose id is the value get_last_id returns.
C33_FileMatchesCache ==
    (\A c \in 1..Len(setters) : setters[c].pc = "returned") =>
        /\ state_file.exists
        /\ ParseOk(state_file.bytes)
        /\ ParseValue(state_file.bytes) = get_last_id

\* ------------------------------------------------------------------------
\* Scraper::download_all_workflows and fetch_workflow_files (mod.rs:56-114)
\* ------------------------------------------------------------------------
\* mod.rs:62: the arity of the tuples the names are taken in
GroupSize == 5

\* a name of the report: owner.repository
ReportName(i) == <<"o", ".">> \o Digits(i)

\* mod.rs:73: repo.replace('.', "/")
ReplaceDots(name) == [k \in 1..Len(name) |-> IF name[k] = "." THEN "/" ELSE name[k]]

\* mod.rs:57: the report that read_report gives
WorkflowsInit ==
    /\ wfpc = "start"
    /\ \E n \in 0..MaxReport : report = [i \in 1..n |-> ReportName(i)]
    /\ rest = <<>>
    /\ group = <<>>
    /\ wjs = <<>>
    /\ cnt = 0
    /\ okTrue = 0
    /\ fetchCalls = {}

\* mod.rs:57-63: read_report answered; the iterator is over all the names
ReadReport ==
    /\ wfpc = "start"
    /\ rest' = report
    /\ wfpc' = "next"
    /\ UNCHANGED <<report, group, wjs, cnt, okTrue, fetchCalls>>
    /\ UNCHANGED <<retryVars, cursorVars, scanVars, finished, filesVars, harvestVars,
                   sinkVars, batchVars, classifyVars, appenders, setters>>

\* mod.rs:57: read_report returned an error, `?` ends download_all_workflows
ReadReportErr ==
    /\ wfpc = "start"
    /\ wfpc' = "failed"
    /\ UNCHANGED <<report, rest, group, wjs, cnt, okTrue, fetchCalls>>
    /\ UNCHANGED <<retryVars, cursorVars, scanVars, finished, filesVars, harvestVars,
                   sinkVars, batchVars, classifyVars, appenders, setters>>

\* an iterator that also gives the names left when fewer than five are left
GivesTupleOfRest(q) == q # <<>>

\* Itertools::tuples (mod.rs:62): a tuple is given while five names are left
GivesTuple(q) == Len(q) >= GroupSize

\* the names of the next tuple
TupleOf(q) == SubSeq(q, 1, IF Len(q) < GroupSize THEN Len(q) ELSE GroupSize)

\* mod.rs:59-66,85: the next tuple and a new JoinSet, or Ok(cnt)
NextGroup ==
    /\ wfpc = "next"
    /\ IF GivesTuple(rest)
         THEN /\ group' = TupleOf(rest)
              /\ rest' = SubSeq(rest, Len(TupleOf(rest)) + 1, Len(rest))
              /\ wjs' = <<>>
              /\ wfpc' = "spawn"
         ELSE /\ wfpc' = "done"
              /\ UNCHANGED <<rest, group, wjs>>
    /\ UNCHANGED <<report, cnt, okTrue, fetchCalls>>
    /\ UNCHANGED <<retryVars, cursorVars, scanVars, finished, filesVars, harvestVars,
                   sinkVars, batchVars, classifyVars, appenders, setters>>

\* mod.rs:67-75: one turn of the for loop spawns fetch_workflow_files for
\* the Repo of the name
SpawnFetch ==
    /\ wfpc = "spawn"
    /\ wjs' = Append(wjs, [name |-> ReplaceDots(Head(group)), st |-> "running"])
    /\ group' = Tail(group)
    /\ wfpc' = IF Tail(group) = <<>> THEN "join" ELSE "spawn"
    /\ UNCHANGED <<report, rest, cnt, okTrue, fetchCalls>>
    /\ UNCHANGED <<retryVars, cursorVars, scanVars, finished, filesVars, harvestVars,
                   sinkVars, batchVars, classifyVars, appenders, setters>>

\* what fetch_workflow_files returns (mod.rs:88-114): Ok(has_file) after the
\* ledger append, or the error of the tree call (mod.rs:89), of a download
\* (mod.rs:107) or of mark_fetched (mod.rs:110)
FetchResults == {"ok_true", "ok_false", "err"}

\* mod.rs:88-114: a spawned fetch_workflow_files runs to its end; on Ok
\* mark_fetched has appended the id of the Repo, which is empty (mod.rs:70),
\* and a newline to the ledger (data.rs:188-190)
FetchFinish ==
    /\ wfpc \in {"spawn", "join"}
    /\ \E i \in 1..Len(wjs) :
        /\ wjs[i].st = "running"
        /\ \E r \in FetchResults :
            /\ wjs' = [wjs EXCEPT ![i].st = r]
            /\ okTrue' = okTrue + (IF r = "ok_true" THEN 1 ELSE 0)
            /\ fetched' = IF r = "err" THEN fetched ELSE fetched \o <<>> \o <<"\n">>
        /\ fetchCalls' = fetchCalls \cup {wjs[i].name}
    /\ UNCHANGED <<wfpc, report, rest, group, cnt>>
    /\ UNCHANGED <<retryVars, cursorVars, scanVars, finished, github_csv, poms,
                   harvestVars, sinkVars, batchVars, classifyVars, appenders, setters>>

\* mod.rs:77-83: join_next gives a task that has ended; Ok(true) is counted,
\* an error is logged
JoinFetch ==
    /\ wfpc = "join"
    /\ \E i \in 1..Len(wjs) :
        /\ wjs[i].st \in FetchResults
        /\ cnt' = cnt + (IF wjs[i].st = "ok_true" THEN 1 ELSE 0)
        /\ wjs' = [wjs EXCEPT ![i].st = "joined"]
    /\ UNCHANGED <<wfpc, report, rest, group, okTrue, fetchCalls>>
    /\ UNCHANGED <<retryVars, cursorVars, scanVars, finished, filesVars, harvestVars,
                   sinkVars, batchVars, classifyVars, appenders, setters>>

\* mod.rs:77: join_next gives None, the turn of the outer loop is over
GroupJoined ==
    /\ wfpc = "join"
    /\ \A i \in 1..Len(wjs) : wjs[i].st = "joined"
    /\ wjs' = <<>>
    /\ wfpc' = "next"
    /\ UNCHANGED <<report, rest, group, cnt, okTrue, fetchCalls>>
    /\ UNCHANGED <<retryVars, cursorVars, scanVars, finished, filesVars, harvestVars,
                   sinkVars, batchVars, classifyVars, appenders, setters>>

WorkflowsNext ==
    \/ ReadReport
    \/ ReadReportErr
    \/ NextGroup
    \/ SpawnFetch
    \/ FetchFinish
    \/ JoinFetch
    \/ GroupJoined

\* the names of the complete groups of five of the report, as Repo names
NamesInFullGroups ==
    {ReplaceDots(report[i]) : i \in 1..((Len(report) \div 5) * 5)}

\* the fetches of the JoinSet that have not returned
Running == {i \in 1..Len(wjs) : wjs[i].st = "running"}

\* C39: the JoinSet never holds more than five tasks; at the join it holds
\* the five names that come next in the report, dots replaced; no task is
\* left in it when the next group is taken; a fetch is run only for names
\* of the complete groups of five, and for all of them once the count is
\* returned; the count returned is the number of fetches that returned
\* Ok(true), that is, that found a workflow file, downloaded what they
\* found and appended to the ledger.
C39_WorkflowsInGroupsOfFive ==
    /\ Len(wjs) <= 5
    /\ Cardinality(Running) <= 5
    /\ wfpc = "join" =>
          /\ Len(wjs) = 5
          /\ (Len(report) - Len(rest)) % 5 = 0
          /\ \A i \in 1..5 :
                wjs[i].name = ReplaceDots(report[Len(report) - Len(rest) - 5 + i])
    /\ wfpc \in {"next", "done"} => wjs = <<>>
    /\ fetchCalls \subseteq NamesInFullGroups
    /\ cnt <= okTrue
    /\ wfpc = "done" =>
          /\ fetchCalls = NamesInFullGroups
          /\ Len(rest) = Len(report) % 5
          /\ cnt = okTrue

\* a report of eleven names: two groups were fetched, the last name never;
\* some fetches returned Ok(true) and some did not
C39_Witness ==
    /\ wfpc = "done"
    /\ Len(report) = 11
    /\ Cardinality(fetchCalls) = 10
    /\ ReplaceDots(report[11]) \notin fetchCalls
    /\ cnt = 3

\* ------------------------------------------------------------------------
\* Specifications
\* ------------------------------------------------------------------------
\* the credential pool at rest
RetryIdle ==
    /\ tokens = 1
    /\ current_token_index = 0
    /\ callers = {}
    /\ rpc = [c \in Callers |-> "attempt"]
    /\ prev = [c \in Callers |-> 0]
    /\ wait = [c \in Callers |-> FALSE]
    /\ result = [c \in Callers |-> "None"]
    /\ rateLimits = [c \in Callers |-> 0]
    /\ sleeps = [c \in Callers |-> 0]
    /\ ownWrapped = [c \in Callers |-> FALSE]
    /\ raced = [c \in Callers |-> FALSE]
    /\ advances = 0
    /\ wrapCount = 0

\* the harvest task at rest, with an empty data directory
HarvestIdle ==
    /\ HarvestInit
    /\ ledger0 = <<>>
    /\ fetched = <<>>
    /\ github_csv = NoFile
    /\ poms = {}

\* no batch is running: fetch_all_files_for is called by download_files
BatchIdle ==
    /\ entry = "download_files"
    /\ graph_repos = <<>>
    /\ concluded = <<>>
    /\ cost = 0

\* iterate is not running
AppendIdle == appenders = <<>>

\* set_last_id has no caller but the scan task
SetIdle == setters = <<>>

\* download_all_workflows is not running
WorkflowsIdle ==
    /\ wfpc = "idle"
    /\ report = <<>>
    /\ rest = <<>>
    /\ group = <<>>
    /\ wjs = <<>>
    /\ cnt = 0
    /\ okTrue = 0
    /\ fetchCalls = {}

\* no request is being classified
ClassifyIdle ==
    /\ kpc = "classified"
    /\ client = "scraper"
    /\ response = NoResponse
    /\ classified = [kind |-> "Reqwest", status |-> 0]

\* concurrent callers of Github::retry on one credential pool
InitRetry ==
    RetryInit /\ CursorInit /\ ScanInit /\ finished = FALSE /\ HarvestIdle
    /\ SinkIdle /\ BatchIdle /\ ClassifyIdle /\ AppendIdle /\ SetIdle /\ WorkflowsIdle
SpecRetry == InitRetry /\ [][RetryNext]_vars

\* the steps of one caller of retry
RetryStep(c) ==
    \/ Attempt(c)
    \/ FetchLoad(c)
    \/ FetchCas(c)
    \/ Cooldown(c)
    \/ NoCooldown(c)
    \/ YieldNow(c)

\* the same callers on a runtime that keeps running every task that can
\* run: the request is answered, the 60 s sleep ends, yield_now comes back
SpecRetryFair ==
    /\ InitRetry
    /\ [][RetryNext]_vars
    /\ \A c \in Callers : WF_vars(RetryStep(c))

\* one scan run of fetch_and_download, crashes and restarts included
InitScan ==
    RetryIdle /\ CursorInit /\ ScanInit /\ finished = FALSE /\ HarvestIdle
    /\ SinkIdle /\ BatchIdle /\ ClassifyIdle /\ AppendIdle /\ SetIdle /\ WorkflowsIdle
SpecScan == InitScan /\ [][ScanNext]_vars

\* Ctrl+C arrives while the run has a listing call left to make
CancelInTime == CtrlC /\ listings < MaxListings

\* the steps of one run of fetch_and_download and of its batches
ScanStep ==
    \/ Start
    \/ ScrapeOk
    \/ ScrapeErr
    \/ Triage
    \/ BatchFinish
    \/ SetLastIdStore
    \/ SetLastIdLock
    \/ SetLastIdCreate
    \/ SetLastIdCreateErr
    \/ SetLastIdWrite
    \/ SetLastIdFlush
    \/ JoinNext
    \/ JoinDone
    \/ Drain
    \/ Pace

ScanRun == CancelInTime \/ ScanStep

\* one scan run in which every call and every dispatched batch returns and
\* the scan task is scheduled again whenever it can go on
SpecScanFair == InitScan /\ [][ScanRun]_vars /\ WF_vars(ScanStep)

\* one harvest-only run of download_files
InitHarvest ==
    /\ RetryIdle /\ CursorInit /\ ScanInit /\ finished = FALSE
    /\ FilesInit /\ HarvestInit /\ SinkIdle /\ BatchIdle /\ ClassifyIdle /\ AppendIdle /\ SetIdle /\ WorkflowsIdle
SpecHarvest == InitHarvest /\ [][HarvestNext]_vars

\* callers of store_repo on one result sink
InitSink ==
    /\ RetryIdle /\ CursorInit /\ ScanInit /\ finished = FALSE
    /\ HarvestInit /\ ledger0 = <<>> /\ fetched = <<>> /\ poms = {}
    /\ SinkInit /\ BatchIdle /\ ClassifyIdle /\ AppendIdle /\ SetIdle /\ WorkflowsIdle
SpecSink == InitSink /\ [][SinkNext]_vars

\* one batch going through load_repositories; the iteration of the scan
\* spawns one batch at most and joins it before the next, and the drained
\* batch runs after the join
InitBatch ==
    /\ RetryIdle /\ CursorInit /\ ScanInit /\ finished = FALSE
    /\ HarvestInit /\ BatchFilesInit /\ BatchInit /\ ClassifyIdle /\ AppendIdle /\ SetIdle /\ WorkflowsIdle
SpecBatch == InitBatch /\ [][BatchNext]_vars

\* one run of iterate: the ledger entries of the repositories it harvested
InitAppend ==
    /\ RetryIdle /\ CursorInit /\ ScanInit /\ finished = FALSE
    /\ HarvestInit /\ AppendInit /\ SinkIdle /\ BatchIdle /\ ClassifyIdle
    /\ SetIdle /\ WorkflowsIdle
SpecAppend == InitAppend /\ [][AppendNext]_vars

\* concurrent calls of set_last_id on a new data directory
InitSet ==
    /\ RetryIdle /\ CursorInit /\ ScanInit /\ finished = FALSE /\ HarvestIdle
    /\ SinkIdle /\ BatchIdle /\ ClassifyIdle /\ AppendIdle /\ SetInit
    /\ WorkflowsIdle
SpecSet == InitSet /\ [][SetNext]_vars

\* one run of download_all_workflows on a report
InitWorkflows ==
    /\ RetryIdle /\ CursorInit /\ ScanInit /\ finished = FALSE /\ HarvestIdle
    /\ SinkIdle /\ BatchIdle /\ ClassifyIdle /\ AppendIdle /\ SetIdle
    /\ WorkflowsInit
SpecWorkflows == InitWorkflows /\ [][WorkflowsNext]_vars

\* one request of one client, classified, and the requests retry makes after
\* a RateLimit
InitClassify ==
    /\ RetryIdle /\ CursorInit /\ ScanInit /\ finished = FALSE /\ HarvestIdle
    /\ SinkIdle /\ BatchIdle /\ ClassifyInit /\ AppendIdle /\ SetIdle /\ WorkflowsIdle
SpecClassify == InitClassify /\ [][ClassifyNext]_vars

====
